---------------------------- MODULE Spec2Model ----------------------------
(***************************************************************************)
(* A model of timeboxd's release-resolution and caching pipeline:          *)
(*   src/src/models.rs     the data types                                  *)
(*   src/src/tmdb.rs       the upstream catalog client                     *)
(*   src/src/cache.rs      the freshness cache store                       *)
(*   src/src/processor.rs  the pipeline orchestrator                       *)
(*                                                                         *)
(* Conventions.  Option<T> is a sequence of length 0 (None) or 1 (Some).   *)
(* A String is a sequence of tokens (words, " " for white space, digits    *)
(* and "-" for a formatted date).  A civil date is the integer YYYYMMDD.   *)
(***************************************************************************)
EXTENDS Integers, Sequences, FiniteSets, TLC

VARIABLES
    film_cache,          \* table film_cache: set of rows, key letterboxd_slug
    release_cache,       \* table release_cache: sequence of rows in rowid order
    release_cache_meta,  \* table release_cache_meta: sequence of rows
    provider_cache,      \* table provider_cache: sequence of rows in rowid order
    provider_cache_meta, \* table provider_cache_meta: sequence of rows
    now,                 \* now_sec(), the wall clock
    tq,                  \* the function call under study (SpecTmdb, SpecWatch, SpecFallback, SpecRoute, SpecLimiter)
    cq,                  \* the last cache-store call and its result (SpecRel, SpecFilm, SpecProv)
    wr,                  \* the writer's open transaction (SpecTxn)
    rd,                  \* the reader's get_releases in progress (SpecTxn)
    run                  \* the process run in progress (Spec)

dbVars == <<film_cache, release_cache, release_cache_meta,
            provider_cache, provider_cache_meta, now>>
vars == <<film_cache, release_cache, release_cache_meta,
          provider_cache, provider_cache_meta, now, tq, cq, wr, rd, run>>

Idle == [phase |-> "idle"]

-----------------------------------------------------------------------------
(* Generic helpers                                                         *)

None == <<>>
Some(x) == <<x>>
IsSome(o) == Len(o) = 1

Range(s) == {s[i] : i \in 1..Len(s)}

RECURSIVE SeqsUpTo(_, _)
SeqsUpTo(S, n) ==
    IF n = 0 THEN {<<>>}
    ELSE LET shorter == SeqsUpTo(S, n - 1)
         IN  shorter \cup {Append(s, x) : s \in {t \in shorter : Len(t) = n - 1}, x \in S}

\* str::contains on token strings: needle occurs as a contiguous run
Contains(s, needle) ==
    \E i \in 0..(Len(s) - Len(needle)) :
        \A j \in 1..Len(needle) : s[i + j] = needle[j]

\* str::trim on token strings: strip leading and trailing white space
RECURSIVE TrimStart(_)
TrimStart(s) == IF s # <<>> /\ Head(s) = " " THEN TrimStart(Tail(s)) ELSE s
RECURSIVE TrimEnd(_)
TrimEnd(s) ==
    IF s # <<>> /\ s[Len(s)] = " " THEN TrimEnd(SubSeq(s, 1, Len(s) - 1)) ELSE s
Trim(s) == TrimEnd(TrimStart(s))

-----------------------------------------------------------------------------
(* src/src/models.rs                                                       *)

Theatrical == "Theatrical"
Digital == "Digital"

as_tmdb_code(kind) == IF kind = Theatrical THEN 3 ELSE 4

from_tmdb_code(code) ==
    IF code = 3 THEN Some(Theatrical)
    ELSE IF code = 4 THEN Some(Digital)
    ELSE None

ReleaseDate(d, kind, note) == [date |-> d, release_type |-> kind, note |-> note]

CountryReleases(c, th, st) == [country |-> c, theatrical |-> th, streaming |-> st]

AlreadyAvailable == <<"Already", " ", "available">>
MockTheatrical == <<"Mock", " ", "theatrical", " ", "release">>
MockStreaming == <<"Mock", " ", "streaming", " ", "release">>
MockMarker == <<"Mock">>

-----------------------------------------------------------------------------
(* Civil dates (jiff::civil::Date)                                         *)

YearOf(d) == d \div 10000
MonthOf(d) == (d \div 100) % 100
DayOf(d) == d % 100
MkDate(y, m, d) == y * 10000 + m * 100 + d

IsLeap(y) == (y % 4 = 0 /\ y % 100 # 0) \/ y % 400 = 0
DaysInMonth(y, m) ==
    IF m = 2 THEN (IF IsLeap(y) THEN 29 ELSE 28)
    ELSE IF m \in {4, 6, 9, 11} THEN 30 ELSE 31

\* date + Span::new().years(n) (n may be negative): the day is clamped to
\* the length of the target month
AddYears(d, n) ==
    LET y == YearOf(d) + n
        m == MonthOf(d)
        last == DaysInMonth(y, m)
    IN  MkDate(y, m, IF DayOf(d) > last THEN last ELSE DayOf(d))

\* date + Span::new().months(n), 0 <= n < 12
AddMonths(d, n) ==
    LET m0 == MonthOf(d) + n
        y == IF m0 > 12 THEN YearOf(d) + 1 ELSE YearOf(d)
        m == IF m0 > 12 THEN m0 - 12 ELSE m0
        last == DaysInMonth(y, m)
    IN  MkDate(y, m, IF DayOf(d) > last THEN last ELSE DayOf(d))

\* slice::sort_by_key(|r| r.date): a stable sort, ascending by date
RECURSIVE InsertByDate(_, _)
InsertByDate(sorted, r) ==
    IF sorted = <<>> THEN <<r>>
    ELSE IF sorted[Len(sorted)].date <= r.date THEN Append(sorted, r)
    ELSE Append(InsertByDate(SubSeq(sorted, 1, Len(sorted) - 1), r),
                sorted[Len(sorted)])

RECURSIVE SortByDate(_)
SortByDate(s) ==
    IF s = <<>> THEN <<>>
    ELSE InsertByDate(SortByDate(SubSeq(s, 1, Len(s) - 1)), s[Len(s)])

DedupKey(r) == <<r.date, as_tmdb_code(r.release_type), r.note>>

\* Vec::dedup_by_key: removes all but the first of CONSECUTIVE elements
\* that resolve to the same key
RECURSIVE DedupByKey(_)
DedupByKey(s) ==
    IF Len(s) <= 1 THEN s
    ELSE LET init == DedupByKey(SubSeq(s, 1, Len(s) - 1))
             x == s[Len(s)]
         IN  IF DedupKey(init[Len(init)]) = DedupKey(x) THEN init
             ELSE Append(init, x)

\* Iterator::max_by_key(|r| r.date): the LAST element with the maximum key
MaxByDate(s) ==
    LET i == CHOOSE k \in 1..Len(s) :
                 /\ \A j \in 1..Len(s) : s[j].date <= s[k].date
                 /\ \A j \in (k + 1)..Len(s) : s[j].date < s[k].date
    IN  s[i]

-----------------------------------------------------------------------------
(* src/src/tmdb.rs: TmdbClient::get_release_dates                          *)

\* self.access_token.trim().is_empty()
TokenIsEmpty(token) == Trim(token) = <<>>

\* rd.note.and_then(|s| { let s = s.trim(); (!s.is_empty()).then(..) })
NormalizeNote(n) ==
    IF IsSome(n) /\ Trim(n[1]) # <<>> THEN Some(Trim(n[1])) ELSE None

\* DateTimeParser::new().parse_timestamp(..)? then .to_zoned(UTC).date():
\* an upstream release_date is a well-formed timestamp of some UTC date, or
\* text the parser rejects
ParseTimestamp(raw) ==
    IF raw.wellformed THEN [ok |-> TRUE, date |-> raw.utc_date]
    ELSE [ok |-> FALSE, date |-> 0]

\* the loop over res.release_dates: entries of another type are skipped
\* before their date is parsed; the first unparseable date fails the call
RECURSIVE ParseEntries(_)
ParseEntries(rds) ==
    IF rds = <<>> THEN [ok |-> TRUE, out |-> <<>>]
    ELSE LET e == Head(rds)
             kind == from_tmdb_code(e.type_)
         IN  IF kind = None THEN ParseEntries(Tail(rds))
             ELSE LET ts == ParseTimestamp(e.release_date)
                  IN  IF ~ts.ok THEN [ok |-> FALSE, out |-> <<>>]
                      ELSE LET rest == ParseEntries(Tail(rds))
                               out == ReleaseDate(ts.date, kind[1], NormalizeNote(e.note))
                           IN  IF ~rest.ok THEN rest
                               ELSE [ok |-> TRUE, out |-> <<out>> \o rest.out]

\* mutant: the latest past date is backfilled whatever its age
BackfillAnyAge(future, past, kind, today) ==
    IF past # <<>> /\ future = <<>>
    THEN <<ReleaseDate(MaxByDate(past).date, kind, Some(AlreadyAvailable))>>
    ELSE future

\* the backfill of one kind: the latest past date, within the last 2 years,
\* and only when the kind has no future entry
Backfill(future, past, kind, today) ==
    LET two_years_ago == AddYears(today, -2)
    IN  IF past # <<>> /\ future = <<>> /\ MaxByDate(past).date >= two_years_ago
        THEN <<ReleaseDate(MaxByDate(past).date, kind, Some(AlreadyAvailable))>>
        ELSE future

\* the body of "for res in resp.results" once the entries are parsed
CountryOf(code, parsed, today) ==
    LET TF(r) == r.date >= today /\ r.release_type = Theatrical
        SF(r) == r.date >= today /\ r.release_type = Digital
        TP(r) == r.date < today /\ r.release_type = Theatrical
        SP(r) == r.date < today /\ r.release_type = Digital
        theatrical_future == DedupByKey(SortByDate(SelectSeq(parsed, TF)))
        streaming_future == DedupByKey(SortByDate(SelectSeq(parsed, SF)))
        theatrical_past == SortByDate(SelectSeq(parsed, TP))
        streaming_past == SortByDate(SelectSeq(parsed, SP))
    IN  CountryReleases(code,
                        Backfill(theatrical_future, theatrical_past, Theatrical, today),
                        Backfill(streaming_future, streaming_past, Digital, today))

RECURSIVE AllCountries(_, _)
AllCountries(results, today) ==
    IF results = <<>> THEN [ok |-> TRUE, out |-> <<>>]
    ELSE LET res == Head(results)
             p == ParseEntries(res.release_dates)
         IN  IF ~p.ok THEN [ok |-> FALSE, out |-> <<>>]
             ELSE LET rest == AllCountries(Tail(results), today)
                  IN  IF ~rest.ok THEN rest
                      ELSE [ok |-> TRUE,
                            out |-> <<CountryOf(res.iso_3166_1, p.out, today)>> \o rest.out]

\* all_countries.iter().find(|c| c.country == country), else an empty set
FindCountry(all_countries, country) ==
    IF \E i \in 1..Len(all_countries) : all_countries[i].country = country
    THEN all_countries[CHOOSE i \in 1..Len(all_countries) :
                          /\ all_countries[i].country = country
                          /\ \A j \in 1..(i - 1) : all_countries[j].country # country]
    ELSE CountryReleases(country, <<>>, <<>>)

ErrResult == [ok |-> FALSE,
              requested_country |-> CountryReleases("", <<>>, <<>>),
              all_countries |-> <<>>]

\* mutant: the fabricated set is also listed among all_countries
MockReleaseDatesListed(country, today) ==
    LET future_date == AddYears(today, 1)
        mock == CountryReleases(country,
                    <<ReleaseDate(future_date, Theatrical, Some(MockTheatrical))>>,
                    <<ReleaseDate(AddMonths(future_date, 3), Digital, Some(MockStreaming))>>)
    IN  [ok |-> TRUE, requested_country |-> mock, all_countries |-> <<mock>>]

\* the branch taken without an access token: fabricated entries
MockReleaseDates(country, today) ==
    LET future_date == AddYears(today, 1)
    IN  [ok |-> TRUE,
         requested_country |->
             CountryReleases(country,
                 <<ReleaseDate(future_date, Theatrical, Some(MockTheatrical))>>,
                 <<ReleaseDate(AddMonths(future_date, 3), Digital, Some(MockStreaming))>>),
         all_countries |-> <<>>]

\* resp: [ok |-> the HTTP exchange and the JSON decoding succeeded,
\*        results |-> <<[iso_3166_1, release_dates]>>]
get_release_dates(token, resp, country, today) ==
    IF TokenIsEmpty(token) THEN MockReleaseDates(country, today)
    ELSE IF ~resp.ok THEN ErrResult
    ELSE LET all == AllCountries(resp.results, today)
         IN  IF ~all.ok THEN ErrResult
             ELSE [ok |-> TRUE,
                   requested_country |-> FindCountry(all.out, country),
                   all_countries |-> all.out]

-----------------------------------------------------------------------------
(* Date <-> text: Date::to_string (cache.rs:232, 287) and str::parse       *)
(* (cache.rs:188)                                                          *)

Digits == <<"0", "1", "2", "3", "4", "5", "6", "7", "8", "9">>
DigitChar(n) == Digits[n + 1]
IsDigit(c) == \E n \in 0..9 : Digits[n + 1] = c
DigitVal(c) == CHOOSE n \in 0..9 : Digits[n + 1] = c

\* the ISO 8601 form YYYY-MM-DD, zero padded
DateToString(d) ==
    LET y == YearOf(d)
        m == MonthOf(d)
        dd == DayOf(d)
    IN  <<DigitChar(y \div 1000), DigitChar((y \div 100) % 10),
          DigitChar((y \div 10) % 10), DigitChar(y % 10), "-",
          DigitChar(m \div 10), DigitChar(m % 10), "-",
          DigitChar(dd \div 10), DigitChar(dd % 10)>>

\* row.release_date.parse::<Date>(): Some(date), or None when the text is
\* not a calendar date
ParseDate(s) ==
    IF /\ Len(s) = 10
       /\ s[5] = "-"
       /\ s[8] = "-"
       /\ \A i \in {1, 2, 3, 4, 6, 7, 9, 10} : IsDigit(s[i])
    THEN LET y == DigitVal(s[1]) * 1000 + DigitVal(s[2]) * 100
                  + DigitVal(s[3]) * 10 + DigitVal(s[4])
             m == DigitVal(s[6]) * 10 + DigitVal(s[7])
             dd == DigitVal(s[9]) * 10 + DigitVal(s[10])
         IN  IF m \in 1..12 /\ dd >= 1 /\ dd <= DaysInMonth(y, m)
             THEN Some(MkDate(y, m, dd)) ELSE None
    ELSE None

-----------------------------------------------------------------------------
(* src/src/cache.rs: the release domain of CacheManager                    *)

film_ttl_seconds == 2
release_ttl_seconds == 1
provider_ttl_seconds == 2

\* mutant: an identity row aged exactly the TTL counts as stale
is_film_fresh_strict(cached_at, t) == t - cached_at < film_ttl_seconds

\* now_sec().saturating_sub(cached_at) <= self.film_ttl_seconds
is_film_fresh(cached_at, t) == t - cached_at <= film_ttl_seconds

\* now_sec().saturating_sub(cached_at) <= self.release_ttl_seconds
is_release_fresh(cached_at, t) == t - cached_at <= release_ttl_seconds

\* now_sec().saturating_sub(cached_at) <= self.provider_ttl_seconds
is_provider_fresh(cached_at, t) == t - cached_at <= provider_ttl_seconds

\* release_cache::ActiveModel (the autoincrement id is the row's position)
ReleaseRow(tmdb_id, country, rel, t) ==
    [tmdb_id |-> tmdb_id, country |-> country,
     release_date |-> DateToString(rel.date),
     release_type |-> as_tmdb_code(rel.release_type),
     note |-> rel.note, cached_at |-> t]

\* idx_release_cache_unique: (tmdb_id, country, release_date, release_type)
ReleaseUniqueKey(row) ==
    <<row.tmdb_id, row.country, row.release_date, row.release_type>>

\* the statements of one release write, in the order the code issues them:
\* one DELETE for all the countries, then per country its INSERTs and the
\* upsert of its meta row
RECURSIVE CountryStatements(_, _, _)
CountryStatements(tmdb_id, countries, t) ==
    IF countries = <<>> THEN <<>>
    ELSE LET c == Head(countries)
             rels == c.theatrical \o c.streaming
         IN  [i \in 1..Len(rels) |->
                 [op |-> "insert", row |-> ReleaseRow(tmdb_id, c.country, rels[i], t)]]
             \o <<[op |-> "meta", tmdb_id |-> tmdb_id, country |-> c.country, at |-> t]>>
             \o CountryStatements(tmdb_id, Tail(countries), t)

\* mutant: the old rows are not deleted before the new ones are inserted
PutStatementsNoDelete(tmdb_id, countries, t) ==
    CountryStatements(tmdb_id, countries, t)

PutStatements(tmdb_id, countries, t) ==
    <<[op |-> "delete", tmdb_id |-> tmdb_id,
       countries |-> {countries[i].country : i \in 1..Len(countries)}]>>
    \o CountryStatements(tmdb_id, countries, t)

\* one statement against the tables db = [rows, meta]: [ok, db]
ExecStatement(db, st) ==
    IF st.op = "delete"
    THEN LET Keep(r) == ~(r.tmdb_id = st.tmdb_id /\ r.country \in st.countries)
         IN  [ok |-> TRUE, db |-> [db EXCEPT !.rows = SelectSeq(db.rows, Keep)]]
    ELSE IF st.op = "insert"
    THEN IF \E i \in 1..Len(db.rows) :
                ReleaseUniqueKey(db.rows[i]) = ReleaseUniqueKey(st.row)
         THEN [ok |-> FALSE, db |-> db]
         ELSE [ok |-> TRUE, db |-> [db EXCEPT !.rows = Append(db.rows, st.row)]]
    ELSE \* "meta": INSERT .. ON CONFLICT (tmdb_id, country) DO UPDATE cached_at
         IF \E i \in 1..Len(db.meta) :
                db.meta[i].tmdb_id = st.tmdb_id /\ db.meta[i].country = st.country
         THEN [ok |-> TRUE,
               db |-> [db EXCEPT !.meta =
                   [i \in 1..Len(db.meta) |->
                       IF db.meta[i].tmdb_id = st.tmdb_id /\ db.meta[i].country = st.country
                       THEN [db.meta[i] EXCEPT !.cached_at = st.at]
                       ELSE db.meta[i]]]]
         ELSE [ok |-> TRUE,
               db |-> [db EXCEPT !.meta =
                   Append(db.meta, [tmdb_id |-> st.tmdb_id, country |-> st.country,
                                    cached_at |-> st.at])]]

\* begin .. commit: the statements in order; the first error returns early,
\* the transaction is dropped and nothing of it is stored
RECURSIVE RunStatements(_, _)
RunStatements(db, sts) ==
    IF sts = <<>> THEN [ok |-> TRUE, db |-> db]
    ELSE LET r == ExecStatement(db, Head(sts))
         IN  IF ~r.ok THEN r ELSE RunStatements(r.db, Tail(sts))

Transaction(db, sts) ==
    LET r == RunStatements(db, sts)
    IN  IF r.ok THEN r ELSE [ok |-> FALSE, db |-> db]

put_releases_multi_country(db, tmdb_id, countries, t) ==
    Transaction(db, PutStatements(tmdb_id, countries, t))

put_releases(db, tmdb_id, country, theatrical, streaming, t) ==
    Transaction(db, PutStatements(tmdb_id,
                        <<CountryReleases(country, theatrical, streaming)>>, t))

\* get_releases, first query: the meta rows of the requested ids, filtered
\* to the fresh ones of requested pairs
FreshRequests(meta, requests, t) ==
    LET ids == {requests[i][1] : i \in 1..Len(requests)}
        request_set == Range(requests)
        Wanted(m) == /\ m.tmdb_id \in ids
                     /\ is_release_fresh(m.cached_at, t)
                     /\ <<m.tmdb_id, m.country>> \in request_set
        metas == SelectSeq(meta, Wanted)
    IN  [i \in 1..Len(metas) |-> <<metas[i].tmdb_id, metas[i].country>>]

\* the rows of one key turned back into the two lists
RECURSIVE RowsToLists(_)
RowsToLists(rows) ==
    IF rows = <<>> THEN <<<<>>, <<>>>>
    ELSE LET row == rows[Len(rows)]
             init == RowsToLists(SubSeq(rows, 1, Len(rows) - 1))
             date == ParseDate(row.release_date)
             kind == from_tmdb_code(row.release_type)
         IN  IF date = None \/ kind = None THEN init
             ELSE LET r == ReleaseDate(date[1], kind[1], row.note)
                  IN  IF kind[1] = Theatrical
                      THEN <<Append(init[1], r), init[2]>>
                      ELSE <<init[1], Append(init[2], r)>>

\* mutant: only the keys that have rows get an entry
ReleasesOfKeysWithRows(rows, fresh_requests) ==
    LET fresh_set == Range(fresh_requests)
        with_rows == {key \in fresh_set :
                         \E i \in 1..Len(rows) : <<rows[i].tmdb_id, rows[i].country>> = key}
    IN  [key \in with_rows |->
            LET Mine(r) == <<r.tmdb_id, r.country>> = key
                lists == RowsToLists(SelectSeq(rows, Mine))
            IN  <<SortByDate(lists[1]), SortByDate(lists[2])>>]

\* get_releases, second query and the grouping: every fresh request gets an
\* entry, with or without rows
ReleasesOf(rows, fresh_requests) ==
    LET fresh_ids == {fresh_requests[i][1] : i \in 1..Len(fresh_requests)}
        fresh_set == Range(fresh_requests)
        Fetched(r) == r.tmdb_id \in fresh_ids
        fetched == SelectSeq(rows, Fetched)
    IN  [key \in fresh_set |->
            LET Mine(r) == <<r.tmdb_id, r.country>> = key
                lists == RowsToLists(SelectSeq(fetched, Mine))
            IN  <<SortByDate(lists[1]), SortByDate(lists[2])>>]

EmptyMap == <<>>

get_releases(db, requests, t) ==
    IF requests = <<>> THEN EmptyMap
    ELSE LET fresh_requests == FreshRequests(db.meta, requests, t)
         IN  IF fresh_requests = <<>> THEN EmptyMap
             ELSE ReleasesOf(db.rows, fresh_requests)

ReleaseDb == [rows |-> release_cache, meta |-> release_cache_meta]

-----------------------------------------------------------------------------
(* src/src/cache.rs: the identity domain of CacheManager                   *)

FilmCacheData(slug, tmdb_id, title, year, poster_path) ==
    [slug |-> slug, tmdb_id |-> tmdb_id, title |-> title, year |-> year,
     poster_path |-> poster_path]

\* film_cache::ActiveModel
FilmRow(film, t) ==
    [letterboxd_slug |-> film.slug, tmdb_id |-> film.tmdb_id, title |-> film.title,
     year |-> film.year, poster_path |-> film.poster_path, updated_at |-> t]

\* INSERT .. ON CONFLICT (letterboxd_slug) DO UPDATE of every other column,
\* once per film, in one transaction; nothing is done for an empty list
RECURSIVE upsert_films(_, _, _)
upsert_films(table, films, t) ==
    IF films = <<>> THEN table
    ELSE upsert_films({r \in table : r.letterboxd_slug # Head(films).slug}
                          \cup {FilmRow(Head(films), t)},
                      Tail(films), t)

\* the rows of the requested slugs that are fresh, keyed by slug
get_films(table, slugs, t) ==
    IF slugs = <<>> THEN EmptyMap
    ELSE LET films == {r \in table : r.letterboxd_slug \in Range(slugs)}
             fresh == {r \in films : is_film_fresh(r.updated_at, t)}
         IN  [slug \in {r.letterboxd_slug : r \in fresh} |->
                 CHOOSE r \in fresh : r.letterboxd_slug = slug]

-----------------------------------------------------------------------------
(* SpecTmdb: get_release_dates applied to bounded upstream responses       *)

MaxUpstream == 3   \* entries upstream lists for the country under study

Tokens == {<<>>, <<" ">>, <<"key">>}
Todays == {20261101}

Timestamp(d) == [wellformed |-> TRUE, utc_date |-> d]
BadTimestamp == [wellformed |-> FALSE, utc_date |-> 0]
Upstream(ts, code, note) == [release_date |-> ts, type_ |-> code, note |-> note]

UpstreamNotes == {None, Some(<<"a">>), Some(<<"a", " ">>), Some(<<"b">>)}
UpstreamFutureDates == {20261101, 20270301}
UpstreamPastDates == {20231101, 20241101, 20250615}

\* upstream entries: dated today or later with every note, dated in the past
\* (their notes are dropped by the backfill), one of a type the client
\* skips, and one whose date does not parse
UpstreamEntries ==
    {Upstream(Timestamp(d), c, n) : d \in UpstreamFutureDates, c \in {3, 4}, n \in UpstreamNotes}
    \cup {Upstream(Timestamp(d), c, None) : d \in UpstreamPastDates, c \in {3, 4}}
    \cup {Upstream(BadTimestamp, 1, None), Upstream(BadTimestamp, 3, None)}

UsEntry == [iso_3166_1 |-> "US",
            release_dates |-> <<Upstream(Timestamp(20270301), 3, None)>>]

TmdbRequests ==
    {[phase |-> "request", token |-> <<"key">>, today |-> t, country |-> "FR",
      resp |-> [ok |-> TRUE,
                results |-> <<[iso_3166_1 |-> "FR", release_dates |-> raw], UsEntry>>],
      result |-> ErrResult] : t \in Todays, raw \in SeqsUpTo(UpstreamEntries, MaxUpstream)}
    \cup
    {[phase |-> "request", token |-> k, today |-> t, country |-> "FR",
      resp |-> [ok |-> o, results |-> <<>>],
      result |-> ErrResult] : k \in Tokens, t \in Todays, o \in BOOLEAN}

InitTmdb ==
    /\ film_cache = {}
    /\ release_cache = <<>>
    /\ release_cache_meta = <<>>
    /\ provider_cache = <<>>
    /\ provider_cache_meta = <<>>
    /\ now = 0
    /\ tq \in TmdbRequests
    /\ cq = Idle
    /\ wr = Idle
    /\ rd = Idle
    /\ run = Idle

TmdbGetReleaseDates ==
    /\ tq.phase = "request"
    /\ tq' = [tq EXCEPT !.phase = "done",
                        !.result = get_release_dates(tq.token, tq.resp, tq.country, tq.today)]
    /\ UNCHANGED <<dbVars, cq, wr, rd, run>>

NextTmdb == TmdbGetReleaseDates

SpecTmdb == InitTmdb /\ [][NextTmdb]_vars

NoDupKeys(s) ==
    \A i, j \in 1..Len(s) : i # j => DedupKey(s[i]) # DedupKey(s[j])

\* C10: in every per-country theatrical or streaming list produced by
\* get_release_dates no two entries have the same (date, kind, note), for
\* every order in which upstream lists them.
C10_NoDuplicateEntries ==
    (tq.phase = "done" /\ tq.result.ok) =>
        \A i \in 1..Len(tq.result.all_countries) :
            /\ NoDupKeys(tq.result.all_countries[i].theatrical)
            /\ NoDupKeys(tq.result.all_countries[i].streaming)

\* the dates before today that upstream lists for one country and type code
PastDates(res, code, today) ==
    {e.release_date.utc_date :
        e \in {x \in Range(res.release_dates) :
                  /\ x.type_ = code
                  /\ x.release_date.wellformed
                  /\ x.release_date.utc_date < today}}

MaxOf(S) == CHOOSE x \in S : \A y \in S : y <= x

\* the same day two years before (no 29 February among the days used)
TwoYearsBefore(today) == today - 20000

\* the three parts of the backfill rule for one output list
BackfillRule(list, past, today) ==
    LET marked == {j \in 1..Len(list) : list[j].note = Some(AlreadyAvailable)}
    IN  /\ Cardinality(marked) <= 1
        /\ \A j \in marked :
               /\ past # {}
               /\ list[j].date = MaxOf(past)
               /\ list[j].date >= TwoYearsBefore(today)
        /\ (past # {} /\ MaxOf(past) < TwoYearsBefore(today)) =>
               \A j \in 1..Len(list) : list[j].date >= today

-----------------------------------------------------------------------------
(* SpecRel: the release domain of the cache store under bounded calls      *)

MaxTime == 3       \* the clock runs from 0 to MaxTime
MaxCacheOps == 3   \* cache-store calls in one behaviour

RelPairs == {<<1, "FR">>, <<1, "US">>, <<2, "US">>}

E1 == ReleaseDate(20261201, Theatrical, None)
E2 == ReleaseDate(20261201, Theatrical, Some(<<"a">>))
E3 == ReleaseDate(20270105, Theatrical, Some(<<"b">>))
E4 == ReleaseDate(20261201, Digital, Some(AlreadyAvailable))

\* (theatrical, streaming) pairs of lists, each sorted by date and without
\* two entries of the same (date, kind, note)
RelSets == {<<<<>>, <<>>>>, <<<<E1, E3>>, <<E4>>>>, <<<<E1, E2>>, <<>>>>}

RelCountryLists ==
    {<<CountryReleases("FR", x[1], x[2]), CountryReleases("US", y[1], y[2])>> :
        x \in RelSets, y \in RelSets}

RelRequests ==
    {<<>>, <<<<1, "FR">>, <<1, "US">>>>, <<<<1, "US">>, <<2, "US">>, <<2, "FR">>>>}

NoCall == [op |-> "none", n |-> 0, at |-> 0, ok |-> TRUE, tmdb_id |-> 0,
           countries |-> <<>>, requests |-> <<>>, result |-> EmptyMap,
           repeat |-> FALSE]

\* the call about to be made writes what the previous call wrote
RepeatsLastPut(tmdb_id, countries) ==
    /\ cq.op \in {"put_releases", "put_releases_multi_country"}
    /\ cq.tmdb_id = tmdb_id
    /\ cq.countries = countries

InitRel ==
    /\ film_cache = {}
    /\ release_cache = <<>>
    /\ release_cache_meta = <<>>
    /\ provider_cache = <<>>
    /\ provider_cache_meta = <<>>
    /\ now = 0
    /\ tq = Idle
    /\ cq = NoCall
    /\ wr = Idle
    /\ rd = Idle
    /\ run = Idle

\* time passes between two calls
RelTick ==
    /\ now < MaxTime
    /\ now' = now + 1
    /\ UNCHANGED <<film_cache, release_cache, release_cache_meta,
                   provider_cache, provider_cache_meta, tq, cq, wr, rd, run>>

RelPut(op, tmdb_id, countries) ==
    LET r == put_releases_multi_country(ReleaseDb, tmdb_id, countries, now)
    IN  /\ cq.n < MaxCacheOps
        /\ release_cache' = r.db.rows
        /\ release_cache_meta' = r.db.meta
        /\ cq' = [op |-> op, n |-> cq.n + 1, at |-> now, ok |-> r.ok,
                  tmdb_id |-> tmdb_id, countries |-> countries,
                  requests |-> <<>>, result |-> EmptyMap,
                  repeat |-> RepeatsLastPut(tmdb_id, countries)]
        /\ UNCHANGED <<film_cache, provider_cache, provider_cache_meta, now, tq, wr, rd, run>>

RelPutReleasesMultiCountry ==
    \E countries \in RelCountryLists :
        RelPut("put_releases_multi_country", 1, countries)

RelPutReleases ==
    \E p \in RelPairs, x \in RelSets :
        LET r == put_releases(ReleaseDb, p[1], p[2], x[1], x[2], now)
        IN  /\ cq.n < MaxCacheOps
            /\ release_cache' = r.db.rows
            /\ release_cache_meta' = r.db.meta
            /\ cq' = [op |-> "put_releases", n |-> cq.n + 1, at |-> now, ok |-> r.ok,
                      tmdb_id |-> p[1],
                      countries |-> <<CountryReleases(p[2], x[1], x[2])>>,
                      requests |-> <<>>, result |-> EmptyMap,
                      repeat |-> RepeatsLastPut(p[1],
                                     <<CountryReleases(p[2], x[1], x[2])>>)]
            /\ UNCHANGED <<film_cache, provider_cache, provider_cache_meta,
                           now, tq, wr, rd, run>>

RelGetReleases ==
    \E requests \in RelRequests :
        /\ cq.n < MaxCacheOps
        /\ cq' = [op |-> "get_releases", n |-> cq.n + 1, at |-> now, ok |-> TRUE,
                  tmdb_id |-> 0, countries |-> <<>>, requests |-> requests,
                  result |-> get_releases(ReleaseDb, requests, now),
                  repeat |-> FALSE]
        /\ UNCHANGED <<dbVars, tq, wr, rd, run>>

NextRel == RelTick \/ RelPutReleasesMultiCountry \/ RelPutReleases \/ RelGetReleases

SpecRel == InitRel /\ [][NextRel]_vars

IsPut(c) == c.op \in {"put_releases", "put_releases_multi_country"}

\* C5: a release-cache write of lists that are date-sorted and deduplicated
\* by (date, kind, note) succeeds, a get_releases within the release TTL
\* returns exactly the lists written, and once the stored age exceeds the
\* TTL the pair is absent from the result.
C5_WriteReadRoundTrip ==
    IsPut(cq) =>
        /\ cq.ok
        /\ \A i \in 1..Len(cq.countries) :
               LET key == <<cq.tmdb_id, cq.countries[i].country>>
                   got == get_releases(ReleaseDb, <<key>>, now)
               IN  IF now - cq.at <= release_ttl_seconds
                   THEN /\ key \in DOMAIN got
                        /\ got[key] = <<cq.countries[i].theatrical,
                                        cq.countries[i].streaming>>
                   ELSE key \notin DOMAIN got

MetaFreshAt(key, t) ==
    \E i \in 1..Len(release_cache_meta) :
        /\ <<release_cache_meta[i].tmdb_id, release_cache_meta[i].country>> = key
        /\ t - release_cache_meta[i].cached_at <= release_ttl_seconds

HasRows(key) ==
    \E i \in 1..Len(release_cache) :
        <<release_cache[i].tmdb_id, release_cache[i].country>> = key

\* C6: get_releases returns an entry for a pair iff the pair was requested
\* and its meta row exists with age <= release TTL; a fresh pair without
\* release rows is returned with two empty lists; a pair whose meta row is
\* missing or stale is absent even when release rows for it are stored.
C6_EntryIffFreshMeta ==
    cq.op = "get_releases" =>
        \A key \in RelPairs \cup {<<2, "FR">>} :
            /\ key \in DOMAIN cq.result
                   <=> (key \in Range(cq.requests) /\ MetaFreshAt(key, cq.at))
            /\ (key \in DOMAIN cq.result /\ ~HasRows(key))
                   => cq.result[key] = <<<<>>, <<>>>>

\* a get_releases that returned a fresh pair without rows as two empty
\* lists and left out a requested pair whose rows are stored but stale
C6_Witness ==
    /\ cq.op = "get_releases"
    /\ \E key \in DOMAIN cq.result : ~HasRows(key) /\ cq.result[key] = <<<<>>, <<>>>>
    /\ \E key \in Range(cq.requests) : HasRows(key) /\ key \notin DOMAIN cq.result

\* the stored rows of the pairs a call wrote, without their timestamps
StoredRows(rows, c) ==
    LET Mine(r) == /\ r.tmdb_id = c.tmdb_id
                   /\ \E i \in 1..Len(c.countries) : c.countries[i].country = r.country
        mine == SelectSeq(rows, Mine)
    IN  [i \in 1..Len(mine) |->
            <<mine[i].tmdb_id, mine[i].country, mine[i].release_date,
              mine[i].release_type, mine[i].note>>]

MetaRowsOf(meta, key) ==
    {i \in 1..Len(meta) : <<meta[i].tmdb_id, meta[i].country>> = key}

\* C8: a release write repeated with identical input ends as the first one
\* did and leaves the stored rows of its pairs identical to the rows after
\* the first call, with exactly one meta row per pair.
C8_RepeatedPutIdempotent ==
    [][(IsPut(cq) /\ IsPut(cq') /\ cq'.n = cq.n + 1
            /\ cq'.tmdb_id = cq.tmdb_id /\ cq'.countries = cq.countries)
        => /\ cq'.ok = cq.ok
           /\ StoredRows(release_cache', cq') = StoredRows(release_cache, cq)
           /\ cq.ok => \A i \in 1..Len(cq.countries) :
                  Cardinality(MetaRowsOf(release_cache_meta',
                      <<cq.tmdb_id, cq.countries[i].country>>)) = 1]_vars

\* a second identical write that succeeded, of a country set with rows
C8_Witness ==
    /\ IsPut(cq)
    /\ cq.repeat
    /\ cq.ok
    /\ StoredRows(release_cache, cq) # <<>>

-----------------------------------------------------------------------------
(* SpecFilm: the identity domain of the cache store under bounded calls    *)

FilmSlugs == {"heat", "dune-part-two", "ran"}

FilmBatches ==
    {<<FilmCacheData(s, id, <<"Title">>, None, None)>> :
        s \in {"heat", "dune-part-two"}, id \in {None, Some(603)}}
    \cup {<<FilmCacheData("heat", Some(603), <<"Heat">>, Some(1995), None),
            FilmCacheData("dune-part-two", None, <<"Dune">>, Some(2024), None)>>}

FilmRequests ==
    {<<>>, <<"heat">>, <<"heat", "dune-part-two", "ran">>}

InitFilm == InitRel

FilmTick == RelTick

FilmUpsertFilms ==
    \E films \in FilmBatches :
        /\ cq.n < MaxCacheOps
        /\ film_cache' = upsert_films(film_cache, films, now)
        /\ cq' = [NoCall EXCEPT !.op = "upsert_films", !.n = cq.n + 1, !.at = now]
        /\ UNCHANGED <<release_cache, release_cache_meta, provider_cache,
                       provider_cache_meta, now, tq, wr, rd, run>>

FilmGetFilms ==
    \E slugs \in FilmRequests :
        /\ cq.n < MaxCacheOps
        /\ cq' = [NoCall EXCEPT !.op = "get_films", !.n = cq.n + 1, !.at = now,
                                !.requests = slugs,
                                !.result = get_films(film_cache, slugs, now)]
        /\ UNCHANGED <<dbVars, tq, wr, rd, run>>

NextFilm == FilmTick \/ FilmUpsertFilms \/ FilmGetFilms

SpecFilm == InitFilm /\ [][NextFilm]_vars

FilmAge(slug, t) ==
    LET row == CHOOSE r \in film_cache : r.letterboxd_slug = slug
    IN  t - row.updated_at

Stored(slug) == \E r \in film_cache : r.letterboxd_slug = slug

\* C7: get_films returns exactly the requested slugs whose stored identity
\* row has age <= the identity TTL (age equal to the TTL is fresh, one
\* second more is stale), each with its stored row; missing and stale rows
\* are absent from the result and the call does not fail.
C7_FreshRowsOnly ==
    cq.op = "get_films" =>
        /\ cq.ok
        /\ DOMAIN cq.result =
               {slug \in Range(cq.requests) :
                   Stored(slug) /\ FilmAge(slug, cq.at) <= film_ttl_seconds}
        /\ \A slug \in DOMAIN cq.result : cq.result[slug] \in film_cache

\* a get_films over a row aged exactly the TTL (returned), a row one second
\* older (absent) and a slug never stored (absent)
C7_Witness ==
    /\ cq.op = "get_films"
    /\ \E slug \in DOMAIN cq.result : FilmAge(slug, cq.at) = film_ttl_seconds
    /\ \E slug \in Range(cq.requests) :
           Stored(slug) /\ FilmAge(slug, cq.at) = film_ttl_seconds + 1
               /\ slug \notin DOMAIN cq.result
    /\ \E slug \in Range(cq.requests) : ~Stored(slug) /\ slug \notin DOMAIN cq.result

-----------------------------------------------------------------------------
(* SpecTxn: one put_releases_multi_country at a time, statement by         *)
(* statement inside its transaction, against a concurrent get_releases     *)
(* whose two queries are separate steps                                    *)

MaxWrites == 2   \* release writes begun in one behaviour

TxnKeys == {<<1, "FR">>, <<1, "US">>}

TxnCountryLists ==
    {<<CountryReleases("FR", x[1], x[2]), CountryReleases("US", y[1], y[2])>> :
        x \in RelSets, y \in {<<<<>>, <<>>>>, <<<<E3>>, <<E4>>>>}}

TxnRequests == {<<<<1, "FR">>, <<1, "US">>>>}

\* mutant: the statements run on the connection, outside the transaction,
\* so a query sees them before the commit
VisibleUncommitted(committed, writer) ==
    IF writer.phase = "open" THEN writer.work ELSE committed

\* what a query on another connection of the pool sees while a transaction
\* is open: the committed tables (the statements are .exec(&txn))
Visible(committed, writer) == committed

NoWriter == [phase |-> "idle", n |-> 0, tmdb_id |-> 0, countries |-> <<>>,
             stmts |-> <<>>, work |-> [rows |-> <<>>, meta |-> <<>>],
             current |-> [k \in TxnKeys |-> None]]

NoReader == [phase |-> "idle", requests |-> <<>>, fresh_requests |-> <<>>,
             result |-> EmptyMap, allowed |-> [k \in TxnKeys |-> {}],
             mid |-> FALSE]

InitTxn ==
    /\ film_cache = {}
    /\ release_cache = <<>>
    /\ release_cache_meta = <<>>
    /\ provider_cache = <<>>
    /\ provider_cache_meta = <<>>
    /\ now = 0
    /\ tq = Idle
    /\ cq = NoCall
    /\ wr = NoWriter
    /\ rd = NoReader
    /\ run = Idle

TxnTick == RelTick

\* let txn = self.db.begin().await?
TxnBegin ==
    \E countries \in TxnCountryLists :
        /\ wr.phase = "idle"
        /\ wr.n < MaxWrites
        /\ wr' = [wr EXCEPT !.phase = "open", !.n = wr.n + 1, !.tmdb_id = 1,
                            !.countries = countries,
                            !.stmts = PutStatements(1, countries, now),
                            !.work = ReleaseDb]
        /\ UNCHANGED <<dbVars, tq, cq, rd, run>>

\* the next .exec(&txn).await?: an error returns from the call and drops
\* the transaction, which rolls it back
TxnExec ==
    /\ wr.phase = "open"
    /\ wr.stmts # <<>>
    /\ LET r == ExecStatement(wr.work, Head(wr.stmts))
       IN  wr' = IF r.ok
                 THEN [wr EXCEPT !.work = r.db, !.stmts = Tail(wr.stmts)]
                 ELSE [wr EXCEPT !.phase = "idle", !.stmts = <<>>]
    /\ UNCHANGED <<dbVars, tq, cq, rd, run>>

\* the complete sets a write stores, per key
WrittenSets(w) ==
    [k \in TxnKeys |->
        IF \E i \in 1..Len(w.countries) : <<w.tmdb_id, w.countries[i].country>> = k
        THEN LET i == CHOOSE j \in 1..Len(w.countries) :
                          <<w.tmdb_id, w.countries[j].country>> = k
             IN  Some(<<w.countries[i].theatrical, w.countries[i].streaming>>)
        ELSE w.current[k]]

\* txn.commit().await?
TxnCommit ==
    /\ wr.phase = "open"
    /\ wr.stmts = <<>>
    /\ release_cache' = wr.work.rows
    /\ release_cache_meta' = wr.work.meta
    /\ wr' = [wr EXCEPT !.phase = "idle", !.current = WrittenSets(wr)]
    /\ rd' = IF rd.phase = "rows"
             THEN [rd EXCEPT !.allowed =
                      [k \in TxnKeys |-> rd.allowed[k] \cup Range(WrittenSets(wr)[k])]]
             ELSE rd
    /\ UNCHANGED <<film_cache, provider_cache, provider_cache_meta, now, tq, cq, run>>

\* the writer has deleted the old rows and not yet committed
MidWrite == wr.phase = "open" /\ Len(wr.stmts) < Len(PutStatements(1, wr.countries, 0))

\* get_releases up to and including the meta query and its filter
TxnReadMeta ==
    \E requests \in TxnRequests :
        /\ rd.phase = "idle"
        /\ LET fresh == FreshRequests(Visible(ReleaseDb, wr).meta, requests, now)
           IN  rd' = [phase |-> IF fresh = <<>> THEN "done" ELSE "rows",
                      requests |-> requests,
                      fresh_requests |-> fresh,
                      result |-> EmptyMap,
                      allowed |-> [k \in TxnKeys |-> Range(wr.current[k])],
                      mid |-> FALSE]
        /\ UNCHANGED <<dbVars, tq, cq, wr, run>>

\* get_releases from the row query to the end
TxnReadRows ==
    /\ rd.phase = "rows"
    /\ rd' = [rd EXCEPT !.phase = "done",
                        !.result = ReleasesOf(Visible(ReleaseDb, wr).rows, rd.fresh_requests),
                        !.mid = MidWrite]
    /\ UNCHANGED <<dbVars, tq, cq, wr, run>>

TxnReadReturn ==
    /\ rd.phase = "done"
    /\ rd' = NoReader
    /\ UNCHANGED <<dbVars, tq, cq, wr, run>>

NextTxn ==
    \/ TxnTick
    \/ TxnBegin
    \/ TxnExec
    \/ TxnCommit
    \/ TxnReadMeta
    \/ TxnReadRows
    \/ TxnReadReturn

SpecTxn == InitTxn /\ [][NextTxn]_vars

\* C4: the set a get_releases returns for a pair while a release-cache
\* write for that pair is in progress is the complete set stored before
\* the write or the complete set the write stores (or one committed in
\* between the reader's two queries), never a mixture and never the state
\* after the delete and before the inserts.
C4_ReaderSeesCompleteSet ==
    rd.phase = "done" =>
        \A k \in DOMAIN rd.result : rd.result[k] \in rd.allowed[k]

\* a get_releases whose row query ran after the writer's DELETE and before
\* its commit, and that returned the stored, non-empty set of a pair
C4_Witness ==
    /\ rd.phase = "done"
    /\ rd.mid
    /\ \E k \in DOMAIN rd.result : rd.result[k] # <<<<>>, <<>>>>

-----------------------------------------------------------------------------
(* src/src/models.rs and src/src/tmdb.rs: watch providers                  *)

Stream == "Stream"
Rent == "Rent"
Buy == "Buy"

provider_as_code(kind) ==
    IF kind = Stream THEN 1 ELSE IF kind = Rent THEN 2 ELSE 3

provider_from_code(code) ==
    IF code = 1 THEN Some(Stream)
    ELSE IF code = 2 THEN Some(Rent)
    ELSE IF code = 3 THEN Some(Buy)
    ELSE None

WatchProvider(p, link, kind) ==
    [provider_id |-> p.provider_id, provider_name |-> p.provider_name,
     logo_path |-> p.logo_path, link |-> link, provider_type |-> kind]

\* the fabricated provider of the empty-token mode
MockProvider ==
    [provider_id |-> 8, provider_name |-> "Netflix",
     logo_path |-> "/pbpMk2JmcoNnQwx5JGpXngfoWtp.jpg", link |-> None,
     provider_type |-> Stream]

\* mutant: rent and buy offers are appended whether or not the provider id
\* is already collected
PushOffersAlways(providers, offers, link, kind, skip_known) ==
    providers \o [i \in 1..Len(offers) |-> WatchProvider(offers[i], link, kind)]

\* one offer list appended to the providers collected so far; rent and buy
\* skip a provider id that is already collected
RECURSIVE PushOffers(_, _, _, _, _)
PushOffers(providers, offers, link, kind, skip_known) ==
    IF offers = <<>> THEN providers
    ELSE LET p == Head(offers)
             known == \E i \in 1..Len(providers) :
                          providers[i].provider_id = p.provider_id
         IN  PushOffers(IF skip_known /\ known THEN providers
                        ELSE Append(providers, WatchProvider(p, link, kind)),
                        Tail(offers), link, kind, skip_known)

OffersOf(o) == IF IsSome(o) THEN o[1] ELSE <<>>

\* TmdbClient::get_watch_providers: [ok, providers]
get_watch_providers(token, resp, country) ==
    IF TokenIsEmpty(token) THEN [ok |-> TRUE, providers |-> <<MockProvider>>]
    ELSE IF ~resp.ok THEN [ok |-> FALSE, providers |-> <<>>]
    ELSE IF country \notin DOMAIN resp.results THEN [ok |-> TRUE, providers |-> <<>>]
    ELSE LET data == resp.results[country]
             stream == PushOffers(<<>>, OffersOf(data.flatrate), data.link, Stream, FALSE)
             rent == PushOffers(stream, OffersOf(data.rent), data.link, Rent, TRUE)
             buy == PushOffers(rent, OffersOf(data.buy), data.link, Buy, TRUE)
         IN  [ok |-> TRUE, providers |-> buy]

-----------------------------------------------------------------------------
(* src/src/cache.rs: the provider domain of CacheManager                   *)

\* provider_cache::ActiveModel
ProviderRow(tmdb_id, country, provider, t) ==
    [tmdb_id |-> tmdb_id, country |-> country,
     provider_id |-> provider.provider_id,
     provider_name |-> provider.provider_name,
     logo_path |-> provider.logo_path, link |-> provider.link,
     provider_type |-> provider_as_code(provider.provider_type),
     cached_at |-> t]

\* idx_provider_cache_unique: (tmdb_id, country, provider_id, provider_type)
ProviderUniqueKey(row) ==
    <<row.tmdb_id, row.country, row.provider_id, row.provider_type>>

\* INSERT .. ON CONFLICT (unique key) DO UPDATE name, logo, link, cached_at
UpsertProviderRow(rows, row) ==
    IF \E i \in 1..Len(rows) : ProviderUniqueKey(rows[i]) = ProviderUniqueKey(row)
    THEN [i \in 1..Len(rows) |->
             IF ProviderUniqueKey(rows[i]) = ProviderUniqueKey(row) THEN row ELSE rows[i]]
    ELSE Append(rows, row)

RECURSIVE UpsertProviderRows(_, _, _, _, _)
UpsertProviderRows(rows, tmdb_id, country, providers, t) ==
    IF providers = <<>> THEN rows
    ELSE UpsertProviderRows(
             UpsertProviderRow(rows, ProviderRow(tmdb_id, country, Head(providers), t)),
             tmdb_id, country, Tail(providers), t)

UpsertMeta(meta, tmdb_id, country, t) ==
    IF \E i \in 1..Len(meta) : meta[i].tmdb_id = tmdb_id /\ meta[i].country = country
    THEN [i \in 1..Len(meta) |->
             IF meta[i].tmdb_id = tmdb_id /\ meta[i].country = country
             THEN [meta[i] EXCEPT !.cached_at = t] ELSE meta[i]]
    ELSE Append(meta, [tmdb_id |-> tmdb_id, country |-> country, cached_at |-> t])

\* nothing at all is written for an empty provider list; otherwise the rows
\* are upserted and the meta row of the pair is stamped, in one transaction
put_providers(db, tmdb_id, country, providers, t) ==
    IF providers = <<>> THEN db
    ELSE [rows |-> UpsertProviderRows(db.rows, tmdb_id, country, providers, t),
          meta |-> UpsertMeta(db.meta, tmdb_id, country, t)]

FreshProviderRequests(meta, requests, t) ==
    LET ids == {requests[i][1] : i \in 1..Len(requests)}
        request_set == Range(requests)
        Wanted(m) == /\ m.tmdb_id \in ids
                     /\ is_provider_fresh(m.cached_at, t)
                     /\ <<m.tmdb_id, m.country>> \in request_set
        metas == SelectSeq(meta, Wanted)
    IN  [i \in 1..Len(metas) |-> <<metas[i].tmdb_id, metas[i].country>>]

RECURSIVE RowsToProviders(_)
RowsToProviders(rows) ==
    IF rows = <<>> THEN <<>>
    ELSE LET row == Head(rows)
             kind == provider_from_code(row.provider_type)
             rest == RowsToProviders(Tail(rows))
         IN  IF kind = None THEN rest
             ELSE <<[provider_id |-> row.provider_id,
                     provider_name |-> row.provider_name,
                     logo_path |-> row.logo_path, link |-> row.link,
                     provider_type |-> kind[1]]>> \o rest

get_providers(db, requests, t) ==
    IF requests = <<>> THEN EmptyMap
    ELSE LET fresh_requests == FreshProviderRequests(db.meta, requests, t)
         IN  IF fresh_requests = <<>> THEN EmptyMap
             ELSE [key \in Range(fresh_requests) |->
                      LET Mine(r) == <<r.tmdb_id, r.country>> = key
                      IN  RowsToProviders(SelectSeq(db.rows, Mine))]

ProviderDb == [rows |-> provider_cache, meta |-> provider_cache_meta]

-----------------------------------------------------------------------------
(* src/src/tmdb.rs: search_movie and get_movie_details                     *)

Ok(v) == [ok |-> TRUE, val |-> v]
Err == [ok |-> FALSE, val |-> <<>>]

\* resp: [ok, results |-> <<[id, poster_path]>>]; the first match is taken
search_movie(token, resp) ==
    IF TokenIsEmpty(token) THEN Ok(Some(<<550, None>>))
    ELSE IF ~resp.ok THEN Err
    ELSE IF resp.results = <<>> THEN Ok(None)
    ELSE Ok(Some(<<Head(resp.results).id, Head(resp.results).poster_path>>))

\* resp: [ok, poster_path]
get_movie_details(token, resp) ==
    IF TokenIsEmpty(token) THEN Ok(None)
    ELSE IF ~resp.ok THEN Err
    ELSE Ok(resp.poster_path)

-----------------------------------------------------------------------------
(* src/src/processor.rs: the functions of the pipeline                     *)

WishlistFilm(slug, year) == [letterboxd_slug |-> slug, year |-> year]

\* slug.split('-')
SlugWords(slug) ==
    CASE slug = "heat" -> <<"heat">>
      [] slug = "dune-part-two" -> <<"dune", "part", "two">>
      [] slug = "ran" -> <<"ran">>
      [] OTHER -> <<slug>>

\* first.to_uppercase().chain(rest)
Capitalize(word) ==
    CASE word = "heat" -> "Heat"
      [] word = "dune" -> "Dune"
      [] word = "part" -> "Part"
      [] word = "two" -> "Two"
      [] word = "ran" -> "Ran"
      [] OTHER -> word

RECURSIVE JoinWords(_)
JoinWords(words) ==
    IF words = <<>> THEN <<>>
    ELSE IF Len(words) = 1 THEN <<Capitalize(words[1])>>
    ELSE <<Capitalize(words[1]), " ">> \o JoinWords(Tail(words))

FallbackTitle(slug) == JoinWords(SlugWords(slug))

\* variant: a film of exactly current_year - 3 is filtered out
FilterByYearStrict(films, current_year) ==
    LET cutoff_year == current_year - 3
        Keep(f) == f.year = None \/ f.year[1] > cutoff_year
    IN  SelectSeq(films, Keep)

\* films with no year, or a year not older than current_year - 3
FilterByYear(films, current_year) ==
    LET cutoff_year == current_year - 3
        Keep(f) == f.year = None \/ f.year[1] >= cutoff_year
    IN  SelectSeq(films, Keep)

\* variant: a cached row is never used
IsCachedFilmNever(cached_films, f) == FALSE

\* the films whose fresh cached row carries a tmdb id, and the others
IsCachedFilm(cached_films, f) ==
    /\ f.letterboxd_slug \in DOMAIN cached_films
    /\ IsSome(cached_films[f.letterboxd_slug].tmdb_id)

CachedPart(films, cached_films) ==
    LET Hit(f) == IsCachedFilm(cached_films, f) IN SelectSeq(films, Hit)

UncachedPart(films, cached_films) ==
    LET Miss(f) == ~IsCachedFilm(cached_films, f) IN SelectSeq(films, Miss)

\* variant: a search error is taken as "no match"
ResolveFilmSearchErrorAsNone(film, token, io) ==
    LET slug == film.letterboxd_slug
        title == IF io.scrape.ok THEN io.scrape.title ELSE FallbackTitle(slug)
        year == IF io.scrape.ok /\ IsSome(io.scrape.year) THEN io.scrape.year
                ELSE film.year
        scraped_id == IF io.scrape.ok THEN io.scrape.tmdb_id ELSE None
        search == search_movie(token, io.search)
    IN  IF scraped_id = None
        THEN IF search.ok /\ IsSome(search.val)
             THEN Ok(FilmCacheData(slug, Some(search.val[1][1]), title, year,
                                   search.val[1][2]))
             ELSE Ok(FilmCacheData(slug, None, title, year, None))
        ELSE Ok(FilmCacheData(slug, scraped_id, title, year, None))

\* variant: a film whose detail page cannot be fetched is dropped
ResolveFilmDropOnScrapeError(film, token, io) ==
    IF ~io.scrape.ok THEN Err
    ELSE LET search == search_movie(token, io.search)
         IN  IF io.scrape.tmdb_id = None
             THEN IF ~search.ok THEN Err
                  ELSE Ok(FilmCacheData(film.letterboxd_slug,
                                        IF IsSome(search.val)
                                        THEN Some(search.val[1][1]) ELSE None,
                                        io.scrape.title, io.scrape.year, None))
             ELSE Ok(FilmCacheData(film.letterboxd_slug, io.scrape.tmdb_id,
                                   io.scrape.title, io.scrape.year, None))

\* one task of resolve_uncached_films.  io: the answers of the three calls
\* the task can make, [scrape |-> [ok, title, year, tmdb_id],
\* search |-> [ok, results], details |-> [ok, poster_path]]
ResolveFilm(film, token, io) ==
    LET slug == film.letterboxd_slug
        title == IF io.scrape.ok THEN io.scrape.title ELSE FallbackTitle(slug)
        year == IF io.scrape.ok /\ IsSome(io.scrape.year) THEN io.scrape.year
                ELSE film.year
        scraped_id == IF io.scrape.ok THEN io.scrape.tmdb_id ELSE None
        search == search_movie(token, io.search)
        details == get_movie_details(token, io.details)
    IN  IF scraped_id = None
        THEN IF ~search.ok THEN Err
             ELSE IF IsSome(search.val)
             THEN Ok(FilmCacheData(slug, Some(search.val[1][1]), title, year,
                                   search.val[1][2]))
             ELSE Ok(FilmCacheData(slug, None, title, year, None))
        ELSE Ok(FilmCacheData(slug, scraped_id, title, year,
                              IF details.ok THEN details.val ELSE None))

\* the title and year search_movie is called with
SearchArgs(film, io) ==
    <<IF io.scrape.ok THEN io.scrape.title ELSE FallbackTitle(film.letterboxd_slug),
      IF io.scrape.ok /\ IsSome(io.scrape.year) THEN io.scrape.year ELSE film.year>>

\* mutant: the first failed item fails the collection
RECURSIVE CollectOrFail(_)
CollectOrFail(items) ==
    IF items = <<>> THEN Ok(<<>>)
    ELSE IF ~Head(items).ok THEN Err
    ELSE LET rest == CollectOrFail(Tail(items))
         IN  IF ~rest.ok THEN Err ELSE Ok(<<Head(items).val>> \o rest.val)

\* "for item in items": an Ok item is kept, an Err item is logged and skipped
CollectItems(items) ==
    LET IsOk(i) == i.ok
        kept == SelectSeq(items, IsOk)
    IN  Ok([i \in 1..Len(kept) |-> kept[i].val])

\* mutant: one more task than the limit is polled at a time
OneOverLimit(max_concurrent) == max_concurrent + 1

\* variant: buffer_unordered(max_concurrent), without the floor of one
BufferLimitNoFloor(max_concurrent) == max_concurrent

\* buffer_unordered(max_concurrent.max(1))
BufferLimit(max_concurrent) ==
    IF max_concurrent > 1 THEN max_concurrent ELSE 1

\* (slug, tmdb_id, title, year, poster_path) of the cached films, then of the
\* newly resolved ones that have an id
FilmTuple(slug, tmdb_id, title, year, poster_path) ==
    [slug |-> slug, tmdb_id |-> tmdb_id, title |-> title, year |-> year,
     poster_path |-> poster_path]

\* variant: a newly resolved film without an id is listed with id 0
AllFilmsKeepUnresolved(cached, cached_films, newly_resolved) ==
    [i \in 1..Len(cached) |->
        LET c == cached_films[cached[i].letterboxd_slug]
        IN  FilmTuple(cached[i].letterboxd_slug, c.tmdb_id[1], c.title, c.year,
                      c.poster_path)]
    \o [i \in 1..Len(newly_resolved) |->
           LET d == newly_resolved[i]
           IN  FilmTuple(d.slug, IF IsSome(d.tmdb_id) THEN d.tmdb_id[1] ELSE 0,
                         d.title, d.year, d.poster_path)]

AllFilmsWithTmdb(cached, cached_films, newly_resolved) ==
    LET HasId(d) == IsSome(d.tmdb_id)
        resolved == SelectSeq(newly_resolved, HasId)
    IN  [i \in 1..Len(cached) |->
            LET c == cached_films[cached[i].letterboxd_slug]
            IN  FilmTuple(cached[i].letterboxd_slug, c.tmdb_id[1], c.title, c.year,
                          c.poster_path)]
        \o [i \in 1..Len(resolved) |->
               FilmTuple(resolved[i].slug, resolved[i].tmdb_id[1], resolved[i].title,
                         resolved[i].year, resolved[i].poster_path)]

RECURSIVE build_release_requests(_, _)
build_release_requests(films, country) ==
    IF films = <<>> THEN <<>>
    ELSE LET id == Head(films).tmdb_id
         IN  <<<<id, country>>>>
             \o (IF country = "NZ" THEN <<<<id, "AU">>>> ELSE <<>>)
             \o (IF country # "US" THEN <<<<id, "US">>>> ELSE <<>>)
             \o build_release_requests(Tail(films), country)

UncachedRequests(requests, cached) ==
    LET Miss(req) == req \notin DOMAIN cached IN SelectSeq(requests, Miss)

\* tmdb_ids.entry(id).or_insert_with(Vec::new).push(country)
CountriesOf(uncached_requests, tmdb_id) ==
    LET Mine(req) == req[1] = tmdb_id
        mine == SelectSeq(uncached_requests, Mine)
    IN  [i \in 1..Len(mine) |-> mine[i][2]]

\* one task of the release fan-out: the call is made for countries[0] and
\* the countries that were asked for are kept
\* variant: a failed release-date call is taken as an answer with no country
ReleaseTaskErrorAsEmpty(tmdb_id, countries, token, resp, today) ==
    LET result == get_release_dates(token, resp, countries[1], today)
        Asked(c) == c.country \in Range(countries)
    IN  Ok([tmdb_id |-> tmdb_id, countries |-> countries,
            found |-> IF result.ok THEN SelectSeq(result.all_countries, Asked)
                      ELSE <<>>])

ReleaseTask(tmdb_id, countries, token, resp, today) ==
    LET result == get_release_dates(token, resp, countries[1], today)
        Asked(c) == c.country \in Range(countries)
    IN  IF ~result.ok THEN Err
        ELSE Ok([tmdb_id |-> tmdb_id, countries |-> countries,
                 found |-> SelectSeq(result.all_countries, Asked)])

\* variant: nothing is pushed for a requested country upstream did not list
WithoutEmptyEntries(found_countries, requested_countries) == found_countries

\* an empty set is pushed for each requested country upstream did not list
WithEmptyEntries(found_countries, requested_countries) ==
    LET found_country_codes ==
            {found_countries[i].country : i \in 1..Len(found_countries)}
        Missing(c) == c \notin found_country_codes
        missing == SelectSeq(requested_countries, Missing)
    IN  found_countries
        \o [i \in 1..Len(missing) |-> CountryReleases(missing[i], <<>>, <<>>)]

MapPut(m, k, v) == [x \in DOMAIN m \cup {k} |-> IF x = k THEN v ELSE m[x]]

\* "for item in items" of the release fan-out, over the Ok items: each is
\* stored and remembered, and the first failed store ends the run.  fault is
\* the position of the store whose I/O fails (0: none).
\* st: [ok, db, new_releases, stores]
RECURSIVE StoreReleases(_, _, _, _)
StoreReleases(st, kept, fault, t) ==
    IF kept = <<>> \/ ~st.ok THEN st
    ELSE LET item == Head(kept)
             found == WithEmptyEntries(item.found, item.countries)
             put == put_releases_multi_country(st.db, item.tmdb_id, found, t)
         IN  IF st.stores + 1 = fault \/ ~put.ok
             THEN [st EXCEPT !.ok = FALSE]
             ELSE StoreReleases(
                      [ok |-> TRUE, db |-> put.db,
                       new_releases |-> MapPut(st.new_releases, item.tmdb_id, found),
                       stores |-> st.stores + 1],
                      Tail(kept), fault, t)

get_release_data(cached_releases, new_releases, tmdb_id, country) ==
    IF <<tmdb_id, country>> \in DOMAIN cached_releases
    THEN cached_releases[<<tmdb_id, country>>]
    ELSE IF /\ tmdb_id \in DOMAIN new_releases
            /\ \E i \in 1..Len(new_releases[tmdb_id]) :
                   new_releases[tmdb_id][i].country = country
    THEN LET c == FindCountry(new_releases[tmdb_id], country)
         IN  <<c.theatrical, c.streaming>>
    ELSE <<<<>>, <<>>>>

LocalUpcoming == "LocalUpcoming"
LocalAlreadyAvailable == "LocalAlreadyAvailable"
NoReleases == "NoReleases"

IsUpcoming(r) == r.note = None \/ ~Contains(r.note[1], AlreadyAvailable)
IsAlreadyAvailable(r) == ~IsUpcoming(r)

Tagged(rels, code) == [i \in 1..Len(rels) |-> [rels[i] EXCEPT !.note = Some(<<code>>)]]

Releases(theatrical, streaming, category) ==
    [theatrical |-> theatrical, streaming |-> streaming, category |-> category]

\* variant: upcoming entries take priority over already available ones
LocalTierUpcomingFirst(data, country) ==
    LET up_th == SelectSeq(data[1], IsUpcoming)
        aa_th == SelectSeq(data[1], IsAlreadyAvailable)
        up_st == SelectSeq(data[2], IsUpcoming)
        aa_st == SelectSeq(data[2], IsAlreadyAvailable)
    IN  IF up_th # <<>> \/ up_st # <<>>
        THEN Some(Releases(Tagged(up_th, country), Tagged(up_st, country),
                           LocalUpcoming))
        ELSE IF aa_th # <<>> \/ aa_st # <<>>
        THEN Some(Releases(Tagged(aa_th, country), Tagged(aa_st, country),
                           LocalAlreadyAvailable))
        ELSE None

\* the requested country's own data: the already available entries are
\* tagged and come first, followed by the upcoming ones as they are
LocalTier(data, country) ==
    LET up_th == SelectSeq(data[1], IsUpcoming)
        aa_th == SelectSeq(data[1], IsAlreadyAvailable)
        up_st == SelectSeq(data[2], IsUpcoming)
        aa_st == SelectSeq(data[2], IsAlreadyAvailable)
    IN  IF aa_th # <<>> \/ aa_st # <<>>
        THEN Some(Releases(Tagged(aa_th, country) \o up_th,
                           Tagged(aa_st, country) \o up_st, LocalAlreadyAvailable))
        ELSE IF up_th # <<>> \/ up_st # <<>>
        THEN Some(Releases(Tagged(up_th, country), Tagged(up_st, country),
                           LocalUpcoming))
        ELSE None

\* variant: a fallback country's entries are returned without a category
FallbackTierUncategorised(data, code) ==
    IF data[1] = <<>> /\ data[2] = <<>> THEN None
    ELSE Some(Releases(Tagged(data[1], code), Tagged(data[2], code), NoReleases))

\* a fallback country's data: every entry is tagged with the fallback's code
FallbackTier(data, code) ==
    LET up_th == Tagged(SelectSeq(data[1], IsUpcoming), code)
        aa_th == Tagged(SelectSeq(data[1], IsAlreadyAvailable), code)
        up_st == Tagged(SelectSeq(data[2], IsUpcoming), code)
        aa_st == Tagged(SelectSeq(data[2], IsAlreadyAvailable), code)
    IN  IF data[1] = <<>> /\ data[2] = <<>> THEN None
        ELSE IF aa_th # <<>> \/ aa_st # <<>>
        THEN Some(Releases(aa_th \o up_th, aa_st \o up_st, LocalAlreadyAvailable))
        ELSE IF up_th # <<>> \/ up_st # <<>>
        THEN Some(Releases(up_th, up_st, LocalUpcoming))
        ELSE None

\* variant: no fallback to the US release set
FallbackBulkNoUs(cached_releases, new_releases, tmdb_id, country) ==
    LET Data(c) == get_release_data(cached_releases, new_releases, tmdb_id, c)
        local == LocalTier(Data(country), country)
        au == IF country = "NZ" THEN FallbackTier(Data("AU"), "AU") ELSE None
    IN  IF IsSome(local) THEN local[1]
        ELSE IF IsSome(au) THEN au[1]
        ELSE Releases(<<>>, <<>>, NoReleases)

\* variant: NZ falls back to the US release set before the AU one
FallbackBulkUsFirst(cached_releases, new_releases, tmdb_id, country) ==
    LET Data(c) == get_release_data(cached_releases, new_releases, tmdb_id, c)
        local == LocalTier(Data(country), country)
        au == IF country = "NZ" THEN FallbackTier(Data("AU"), "AU") ELSE None
        us == FallbackTier(Data("US"), "US")
    IN  IF IsSome(local) THEN local[1]
        ELSE IF country = "US" THEN Releases(<<>>, <<>>, NoReleases)
        ELSE IF IsSome(us) THEN us[1]
        ELSE IF IsSome(au) THEN au[1]
        ELSE Releases(<<>>, <<>>, NoReleases)

get_releases_with_fallback_bulk(cached_releases, new_releases, tmdb_id, country) ==
    LET Data(c) == get_release_data(cached_releases, new_releases, tmdb_id, c)
        local == LocalTier(Data(country), country)
        au == IF country = "NZ" THEN FallbackTier(Data("AU"), "AU") ELSE None
        us == FallbackTier(Data("US"), "US")
    IN  IF IsSome(local) THEN local[1]
        ELSE IF country = "US" THEN Releases(<<>>, <<>>, NoReleases)
        ELSE IF IsSome(au) THEN au[1]
        ELSE IF IsSome(us) THEN us[1]
        ELSE Releases(<<>>, <<>>, NoReleases)

FilmWithReleases(film, rel) ==
    [title |-> film.title, year |-> film.year, tmdb_id |-> film.tmdb_id,
     letterboxd_slug |-> film.slug, poster_path |-> film.poster_path,
     theatrical |-> rel.theatrical, streaming |-> rel.streaming,
     category |-> rel.category, streaming_providers |-> <<>>]

\* phase 8: one result per film that has a tmdb id, in list order
Assemble(all_films, cached_releases, new_releases, country) ==
    [i \in 1..Len(all_films) |->
        FilmWithReleases(all_films[i],
            get_releases_with_fallback_bulk(cached_releases, new_releases,
                                            all_films[i].tmdb_id, country))]

\* variant: a streaming entry dated today counts as a future one
NeedsLookupUnlessTodayOrLater(film, today) ==
    ~\E i \in 1..Len(film.streaming) : film.streaming[i].date >= today

needs_provider_lookup(film, today) ==
    ~\E i \in 1..Len(film.streaming) : film.streaming[i].date > today

build_provider_requests(films, country, today) ==
    LET Needs(f) == needs_provider_lookup(f, today)
        needing == SelectSeq(films, Needs)
    IN  [i \in 1..Len(needing) |-> <<needing[i].tmdb_id, country>>]

\* one task of the provider fan-out
ProviderTask(tmdb_id, country_code, token, resp) ==
    LET r == get_watch_providers(token, resp, country_code)
    IN  IF ~r.ok THEN Err
        ELSE Ok([tmdb_id |-> tmdb_id, country |-> country_code,
                 providers |-> r.providers])

\* "for item in items" of the provider fan-out, over the Ok items; a store
\* of an empty provider list returns before any I/O
\* st: [ok, db, new_providers, stores]
RECURSIVE StoreProviders(_, _, _, _)
StoreProviders(st, kept, fault, t) ==
    IF kept = <<>> \/ ~st.ok THEN st
    ELSE LET item == Head(kept)
             io == IF item.providers = <<>> THEN 0 ELSE 1
         IN  IF io = 1 /\ st.stores + 1 = fault THEN [st EXCEPT !.ok = FALSE]
             ELSE StoreProviders(
                      [ok |-> TRUE,
                       db |-> put_providers(st.db, item.tmdb_id, item.country,
                                            item.providers, t),
                       new_providers |-> MapPut(st.new_providers,
                                                <<item.tmdb_id, item.country>>,
                                                item.providers),
                       stores |-> st.stores + io],
                      Tail(kept), fault, t)

\* the cached providers of a film's pair win over the newly fetched ones
AttachProviders(results, cached_providers, new_providers, country) ==
    [i \in 1..Len(results) |->
        LET key == <<results[i].tmdb_id, country>>
        IN  IF key \in DOMAIN cached_providers
            THEN [results[i] EXCEPT !.streaming_providers = cached_providers[key]]
            ELSE IF key \in DOMAIN new_providers
            THEN [results[i] EXCEPT !.streaming_providers = new_providers[key]]
            ELSE results[i]]

\* f.theatrical.first().or_else(|| f.streaming.first()).map(|r| r.date)
SortKey(f) ==
    IF f.theatrical # <<>> THEN Some(f.theatrical[1].date)
    ELSE IF f.streaming # <<>> THEN Some(f.streaming[1].date)
    ELSE None

\* Option<Date> ordering: None sorts before every Some
KeyLeq(a, b) == a = None \/ (b # None /\ a[1] <= b[1])

\* slice::sort_by_key: a stable sort
RECURSIVE InsertByKey(_, _)
InsertByKey(sorted, f) ==
    IF sorted = <<>> THEN <<f>>
    ELSE IF KeyLeq(SortKey(sorted[Len(sorted)]), SortKey(f)) THEN Append(sorted, f)
    ELSE Append(InsertByKey(SubSeq(sorted, 1, Len(sorted) - 1), f),
                sorted[Len(sorted)])

RECURSIVE SortResults(_)
SortResults(s) ==
    IF s = <<>> THEN <<>>
    ELSE InsertByKey(SortResults(SubSeq(s, 1, Len(s) - 1)), s[Len(s)])

-----------------------------------------------------------------------------
(* src/src/processor.rs: process as a state machine.  A fan-out is a queue  *)
(* of tasks not yet started (pending), the set of started tasks (inflight)  *)
(* and the results in completion order (items).  The answers of the calls a *)
(* task makes are chosen when the task finishes.                            *)

MaxRuns == 2          \* process runs in one behaviour

Today == CHOOSE t \in Todays : TRUE

\* the cache reads and the outbound calls a run has made, by operation: for
\* each key (a slug, a catalog id or an (id, country) pair) the number of
\* calls made with it
NoCalls ==
    [get_films |-> EmptyMap, fetch_letterboxd_film_data |-> EmptyMap,
     search_movie |-> EmptyMap, get_movie_details |-> EmptyMap,
     search_args |-> EmptyMap, search_ret |-> EmptyMap, scrape_err |-> EmptyMap,
     get_releases |-> EmptyMap, get_release_dates |-> EmptyMap,
     release_err |-> EmptyMap,
     get_providers |-> EmptyMap, get_watch_providers |-> EmptyMap]

Count(log, key) == IF key \in DOMAIN log THEN log[key] ELSE 0

Bump(log, key) == MapPut(log, key, Count(log, key) + 1)

RECURSIVE BumpAll(_, _)
BumpAll(log, keys) ==
    IF keys = <<>> THEN log ELSE BumpAll(Bump(log, Head(keys)), Tail(keys))

\* what the next run is told of a finished run: its country, its time, and
\* the keys of the upstream release-date and provider calls that succeeded
NoPrev == [ok |-> FALSE, country |-> "", at |-> 0, release_ok |-> {},
           release_pairs |-> {}, provider_ok |-> {}, no_id |-> {},
           resolve_failed |-> {}, release_err |-> {}]

NoRun ==
    [phase |-> "idle", n |-> 0, films |-> <<>>, country |-> "",
     calls |-> NoCalls, prev |-> NoPrev, watchlist |-> <<>>, failed_op |-> "",
     max_concurrent |-> 0, token |-> <<>>, cached_films |-> EmptyMap,
     pending |-> <<>>, inflight |-> {}, items |-> <<>>,
     all_films |-> <<>>, cached_releases |-> EmptyMap, new_releases |-> EmptyMap,
     resolve_failed |-> {}, release_failed |-> {}, provider_failed |-> {},
     results |-> <<>>, cached_providers |-> EmptyMap,
     ok |-> TRUE, store_failed |-> FALSE]

RECURSIVE Perms(_)
Perms(S) ==
    IF S = {} THEN {<<>>}
    ELSE UNION {{<<x>> \o p : p \in Perms(S \ {x})} : x \in S}

Tasks(inputs) == [i \in 1..Len(inputs) |-> [i |-> i, input |-> inputs[i]]]

\* the slugs whose resolution task returned Ok without a catalog id, once
\* the new identities are written
NoIdSlugs(r) ==
    IF r.phase \in {"idle", "resolve"} \/ r.failed_op \in {"get_films", "upsert_films"}
    THEN {}
    ELSE {f.letterboxd_slug : f \in Range(UncachedPart(r.films, r.cached_films))}
             \ (r.resolve_failed \cup {f.slug : f \in Range(r.all_films)})

\* the summary of a finished run, or the one it was given
Carry(r, t) ==
    IF r.phase = "done" /\ r.n > 0
    THEN [ok |-> r.ok, country |-> r.country, at |-> t,
          release_ok |-> DOMAIN r.calls.get_release_dates \ r.release_failed,
          release_pairs |->
              {key \in DOMAIN r.calls.get_releases :
                  /\ key \notin DOMAIN r.cached_releases
                  /\ key[1] \in DOMAIN r.calls.get_release_dates \ r.release_failed},
          provider_ok |-> DOMAIN r.calls.get_watch_providers \ r.provider_failed,
          no_id |-> NoIdSlugs(r),
          resolve_failed |-> r.resolve_failed,
          release_err |-> DOMAIN r.calls.release_err]
    ELSE r.prev

\* variant: the error of a cache-store operation is swallowed
FailedSwallowed(r, store) ==
    [r EXCEPT !.phase = "done", !.pending = <<>>, !.inflight = {}]

\* the run ends with an error; store tells whether a cache-store operation
\* raised it
Failed(r, store) ==
    [r EXCEPT !.phase = "done", !.ok = FALSE, !.store_failed = store,
              !.pending = <<>>, !.inflight = {}]

Init ==
    /\ film_cache = {}
    /\ release_cache = <<>>
    /\ release_cache_meta = <<>>
    /\ provider_cache = <<>>
    /\ provider_cache_meta = <<>>
    /\ now = 0
    /\ tq = Idle
    /\ cq = Idle
    /\ wr = Idle
    /\ rd = Idle
    /\ run = NoRun

\* the clock advances between runs
ProcTick ==
    /\ run.phase \in {"idle", "done"}
    /\ now < MaxTime
    /\ now' = now + 1
    /\ run' = [NoRun EXCEPT !.n = run.n, !.prev = Carry(run, now)]
    /\ UNCHANGED <<film_cache, release_cache, release_cache_meta, provider_cache,
                   provider_cache_meta, tq, cq, wr, rd>>

\* process, up to the start of identity resolution: the year filter, the
\* bulk read of the identity cache and the partition
ProcStart(watchlists, countries, concurrencies, tokens, runs) ==
    \E wl \in watchlists, c \in countries, mc \in concurrencies, tok \in tokens,
       get_films_ok \in BOOLEAN :
        /\ run.phase \in {"idle", "done"}
        /\ run.n < runs
        /\ LET films == FilterByYear(wl, YearOf(Today))
               slugs == [i \in 1..Len(films) |-> films[i].letterboxd_slug]
               cached_films == get_films(film_cache, slugs, now)
               base == [NoRun EXCEPT !.n = run.n + 1, !.films = films, !.country = c,
                                     !.max_concurrent = mc, !.token = tok,
                                     !.watchlist = wl, !.prev = Carry(run, now)]
               read == [base EXCEPT !.calls.get_films = BumpAll(@, slugs)]
           IN  run' = IF films = <<>> THEN [base EXCEPT !.phase = "done"]
                      ELSE IF ~get_films_ok
                      THEN Failed([read EXCEPT !.failed_op = "get_films"], TRUE)
                      ELSE [read EXCEPT !.phase = "resolve",
                                        !.cached_films = cached_films,
                                        !.pending = Tasks(UncachedPart(films, cached_films))]
        /\ UNCHANGED <<dbVars, tq, cq, wr, rd>>

\* buffer_unordered: the next queued task is started while fewer than the
\* limit are in flight
ProcTaskStart ==
    /\ run.phase \in {"resolve", "release", "provider"}
    /\ run.pending # <<>>
    /\ Cardinality(run.inflight) < BufferLimit(run.max_concurrent)
    /\ run' = [run EXCEPT !.pending = Tail(@), !.inflight = @ \cup {Head(run.pending)}]
    /\ UNCHANGED <<dbVars, tq, cq, wr, rd>>

\* variant: the items are taken as soon as no task is queued
CollectedWhenQueueEmpty(r) == r.pending = <<>>

\* .collect().await: every task of the fan-out has completed
Collected(r) == r.pending = <<>> /\ r.inflight = {}

\* the buffer is filled before the tasks in flight are polled
CanFinish ==
    \/ run.pending = <<>>
    \/ Cardinality(run.inflight) >= BufferLimit(run.max_concurrent)

\* one identity-resolution task completes
ProcResolveFinish(answers) ==
    /\ run.phase = "resolve"
    /\ CanFinish
    /\ \E t \in run.inflight :
        \E answer \in answers :
            /\ LET slug == t.input.letterboxd_slug
                   io == answer[slug]
                   item == ResolveFilm(t.input, run.token, io)
                   searched == ~io.scrape.ok \/ io.scrape.tmdb_id = None
               IN  run' = [run EXCEPT !.inflight = @ \ {t},
                                      !.items = Append(@, item),
                                      !.calls.fetch_letterboxd_film_data = Bump(@, slug),
                                      !.calls.search_movie =
                                          IF searched THEN Bump(@, slug) ELSE @,
                                      !.calls.search_args =
                                          IF searched
                                          THEN MapPut(@, slug, SearchArgs(t.input, io))
                                          ELSE @,
                                      !.calls.search_ret =
                                          IF searched
                                          THEN MapPut(@, slug,
                                                      search_movie(run.token, io.search))
                                          ELSE @,
                                      !.calls.scrape_err =
                                          IF io.scrape.ok THEN @ ELSE Bump(@, slug),
                                      !.calls.get_movie_details =
                                          IF searched THEN @ ELSE Bump(@, slug),
                                      !.resolve_failed =
                                          IF item.ok THEN @ ELSE @ \cup {slug}]
            /\ UNCHANGED <<dbVars, tq, cq, wr, rd>>

\* variant: one release-date task per missing (id, country) pair
ReleaseTasksPerPair(order, uncached_requests) ==
    Tasks([i \in 1..Len(uncached_requests) |->
              [tmdb_id |-> uncached_requests[i][1],
               countries |-> <<uncached_requests[i][2]>>]])

ReleaseTasks(order, uncached_requests) ==
    Tasks([i \in 1..Len(order) |->
              [tmdb_id |-> order[i],
               countries |-> CountriesOf(uncached_requests, order[i])]])

\* the end of identity resolution, the write of the new identities, the
\* film list, the bulk read of the release cache and the grouping of the
\* missing pairs by id (a HashMap: the ids are iterated in any order)
ProcResolveDone ==
    /\ run.phase = "resolve"
    /\ Collected(run)
    /\ LET newly == CollectItems(run.items)
           all_films == AllFilmsWithTmdb(CachedPart(run.films, run.cached_films),
                                         run.cached_films, newly.val)
           requests == build_release_requests(all_films, run.country)
           cached_releases == get_releases(ReleaseDb, requests, now)
           uncached == UncachedRequests(requests, cached_releases)
           ids == {uncached[i][1] : i \in 1..Len(uncached)}
           looked == [run EXCEPT !.calls.get_releases = BumpAll(@, requests)]
       IN  \E fault \in {"none", "upsert_films", "get_releases"} :
           \E order \in Perms(ids) :
               /\ fault = "upsert_films" => newly.ok /\ newly.val # <<>>
               /\ fault = "get_releases" => newly.ok /\ requests # <<>>
               /\ film_cache' = IF newly.ok /\ fault # "upsert_films"
                                THEN upsert_films(film_cache, newly.val, now)
                                ELSE film_cache
               /\ run' = IF ~newly.ok THEN Failed(run, FALSE)
                         ELSE IF fault = "upsert_films"
                         THEN Failed([run EXCEPT !.failed_op = fault], TRUE)
                         ELSE IF fault = "get_releases"
                         THEN Failed([looked EXCEPT !.failed_op = fault,
                                                    !.all_films = all_films], TRUE)
                         ELSE [looked EXCEPT !.phase = "release", !.items = <<>>,
                                          !.all_films = all_films,
                                          !.cached_releases = cached_releases,
                                          !.pending = ReleaseTasks(order, uncached)]
    /\ UNCHANGED <<release_cache, release_cache_meta, provider_cache,
                   provider_cache_meta, now, tq, cq, wr, rd>>

\* one release-date task completes
ProcReleaseFinish(resps) ==
    /\ run.phase = "release"
    /\ CanFinish
    /\ \E t \in run.inflight, resp \in resps :
        /\ LET item == ReleaseTask(t.input.tmdb_id, t.input.countries, run.token,
                                   resp, Today)
           IN  run' = [run EXCEPT !.inflight = @ \ {t},
                                  !.items = Append(@, item),
                                  !.calls.get_release_dates = Bump(@, t.input.tmdb_id),
                                  !.calls.release_err =
                                      IF get_release_dates(run.token, resp,
                                                           t.input.countries[1], Today).ok
                                      THEN @ ELSE Bump(@, t.input.tmdb_id),
                                  !.release_failed =
                                      IF item.ok THEN @ ELSE @ \cup {t.input.tmdb_id}]
        /\ UNCHANGED <<dbVars, tq, cq, wr, rd>>

\* the end of the release fan-out: the stores, the assembly of the results
\* and the bulk read of the provider cache
ProcReleaseDone ==
    /\ run.phase = "release"
    /\ Collected(run)
    /\ LET kept == CollectItems(run.items)
       IN  \E fault \in 0..Len(kept.val), get_providers_ok \in BOOLEAN :
               LET st == StoreReleases([ok |-> TRUE, db |-> ReleaseDb,
                                        new_releases |-> EmptyMap, stores |-> 0],
                                       kept.val, fault, now)
                   results == Assemble(run.all_films, run.cached_releases,
                                       st.new_releases, run.country)
                   requests == build_provider_requests(results, run.country, Today)
                   cached_providers == get_providers(ProviderDb, requests, now)
                   Miss(req) == req \notin DOMAIN cached_providers
                   looked == [run EXCEPT !.calls.get_providers = BumpAll(@, requests)]
               IN  /\ ~get_providers_ok => kept.ok /\ st.ok /\ requests # <<>>
                   /\ release_cache' = st.db.rows
                   /\ release_cache_meta' = st.db.meta
                   /\ run' = IF ~kept.ok THEN Failed(run, FALSE)
                             ELSE IF ~st.ok
                             THEN Failed([run EXCEPT
                                             !.failed_op = "put_releases_multi_country"],
                                         TRUE)
                             ELSE IF ~get_providers_ok
                             THEN Failed([looked EXCEPT !.failed_op = "get_providers"], TRUE)
                             ELSE [looked EXCEPT !.phase = "provider", !.items = <<>>,
                                              !.new_releases = st.new_releases,
                                              !.results = results,
                                              !.cached_providers = cached_providers,
                                              !.pending = Tasks(SelectSeq(requests, Miss))]
    /\ UNCHANGED <<film_cache, provider_cache, provider_cache_meta, now, tq, cq, wr, rd>>

\* one provider task completes
ProcProviderFinish(resps) ==
    /\ run.phase = "provider"
    /\ CanFinish
    /\ \E t \in run.inflight, resp \in resps :
        /\ LET item == ProviderTask(t.input[1], t.input[2], run.token, resp)
           IN  run' = [run EXCEPT !.inflight = @ \ {t},
                                  !.items = Append(@, item),
                                  !.calls.get_watch_providers = Bump(@, t.input),
                                  !.provider_failed =
                                      IF item.ok THEN @ ELSE @ \cup {t.input}]
        /\ UNCHANGED <<dbVars, tq, cq, wr, rd>>

\* the end of the provider fan-out: the stores, the providers attached to
\* the results, the final sort and the return
ProcProviderDone ==
    /\ run.phase = "provider"
    /\ Collected(run)
    /\ LET kept == CollectItems(run.items)
       IN  \E fault \in 0..Len(kept.val) :
               LET st == StoreProviders([ok |-> TRUE, db |-> ProviderDb,
                                         new_providers |-> EmptyMap, stores |-> 0],
                                        kept.val, fault, now)
               IN  /\ fault > 0 => ~st.ok
                   /\ provider_cache' = st.db.rows
                   /\ provider_cache_meta' = st.db.meta
                   /\ run' = IF ~kept.ok THEN Failed(run, FALSE)
                             ELSE IF ~st.ok
                             THEN Failed([run EXCEPT !.failed_op = "put_providers"], TRUE)
                             ELSE [run EXCEPT
                                      !.phase = "done", !.items = <<>>,
                                      !.results = SortResults(
                                          AttachProviders(run.results, run.cached_providers,
                                                          st.new_providers, run.country))]
    /\ UNCHANGED <<film_cache, release_cache, release_cache_meta, now, tq, cq, wr, rd>>

-----------------------------------------------------------------------------
(* SpecRun: one process run from an empty store, against every combination *)
(* of upstream answers and failures                                         *)

Watchlists ==
    {<<WishlistFilm("heat", None)>>,
     <<WishlistFilm("heat", Some(2023)), WishlistFilm("ran", Some(2022)),
       WishlistFilm("dune-part-two", None)>>}

Countries == {"US", "NZ", "FR"}

Concurrencies == {0, 2}

RunTokens == {<<>>, <<"key">>}

\* the catalog id the watchlist source's page of a slug carries
PageId(slug) ==
    IF slug = "heat" THEN 949 ELSE IF slug = "ran" THEN 11645 ELSE 693134

ScrapeFailed == [ok |-> FALSE, title |-> <<>>, year |-> None, tmdb_id |-> None]
SearchFailed == [ok |-> FALSE, results |-> <<>>]
SearchEmpty == [ok |-> TRUE, results |-> <<>>]
SearchMatch == [ok |-> TRUE, results |-> <<[id |-> 603, poster_path |-> Some("/s.jpg")]>>]
DetailsFailed == [ok |-> FALSE, poster_path |-> None]
DetailsPoster == [ok |-> TRUE, poster_path |-> Some("/p.jpg")]

\* a page that carries the slug's catalog id
PageWithId(slug) ==
    [ok |-> TRUE, title |-> <<"Page", " ", "title">>, year |-> None,
     tmdb_id |-> Some(PageId(slug))]

\* the answers one identity-resolution task can get, by slug: the page fails
\* or has no id and search fails, finds nothing or finds a match; or the
\* page has the id and the details call fails or returns a poster
ResolveIo ==
    {[slug \in FilmSlugs |-> [scrape |-> sc, search |-> se, details |-> DetailsFailed]] :
        sc \in {ScrapeFailed,
                [ok |-> TRUE, title |-> <<"Page", " ", "title">>, year |-> Some(2024),
                 tmdb_id |-> None]},
        se \in {SearchFailed, SearchEmpty, SearchMatch}}
    \cup
    {[slug \in FilmSlugs |->
         [scrape |-> PageWithId(slug), search |-> SearchFailed, details |-> d]] :
        d \in {DetailsFailed, DetailsPoster}}

CountryEntry(code, rds) == [iso_3166_1 |-> code, release_dates |-> rds]

\* the answers of the release-date endpoint: a failed exchange, a date that
\* does not parse, no country at all, local data, fallback data only, and
\* two same-day theatrical entries that differ in their note
ReleaseResps ==
    {[ok |-> FALSE, results |-> <<>>],
     [ok |-> TRUE, results |-> <<CountryEntry("US", <<Upstream(BadTimestamp, 3, None)>>)>>],
     [ok |-> TRUE, results |-> <<>>],
     [ok |-> TRUE, results |->
         <<CountryEntry("NZ", <<Upstream(Timestamp(20270301), 3, Some(<<"a">>))>>),
           CountryEntry("FR", <<Upstream(Timestamp(20261201), 3, None),
                                 Upstream(Timestamp(20270115), 4, None)>>),
           CountryEntry("US", <<Upstream(Timestamp(20250615), 3, None),
                                 Upstream(Timestamp(20270601), 4, None)>>)>>],
     [ok |-> TRUE, results |->
         <<CountryEntry("AU", <<Upstream(Timestamp(20270201), 3, None)>>),
           CountryEntry("US", <<Upstream(Timestamp(20260901), 3, None)>>)>>],
     [ok |-> TRUE, results |->
         <<CountryEntry("US", <<Upstream(Timestamp(20270301), 3, None),
                                 Upstream(Timestamp(20270301), 3, Some(<<"a">>))>>)>>]}

Offer(id, name) == [provider_id |-> id, provider_name |-> name, logo_path |-> "/logo.jpg"]

\* the answers of the watch-provider endpoint: a failed exchange, no entry
\* for the country, and offers under two categories
ProviderResps ==
    {[ok |-> FALSE, results |-> EmptyMap],
     [ok |-> TRUE, results |-> EmptyMap],
     [ok |-> TRUE, results |->
         [c \in Countries |->
             [link |-> Some("https://watch"),
              flatrate |-> Some(<<Offer(8, "Netflix")>>),
              rent |-> Some(<<Offer(8, "Netflix"), Offer(2, "Apple TV")>>),
              buy |-> None]]]}

NextRun ==
    \/ ProcStart(Watchlists, Countries, Concurrencies, RunTokens, 1)
    \/ ProcTaskStart
    \/ ProcResolveFinish(ResolveIo)
    \/ ProcResolveDone
    \/ ProcReleaseFinish(ReleaseResps)
    \/ ProcReleaseDone
    \/ ProcProviderFinish(ProviderResps)
    \/ ProcProviderDone

SpecRun == Init /\ [][NextRun]_vars

\* C2: a run that ends with an error ended on a failed cache-store
\* operation; whatever per-film calls failed, a run whose store operations
\* all succeeded returns its list.
C2_ErrorOnlyFromStore ==
    (run.phase = "done" /\ ~run.ok) => run.store_failed

\* a run returns its list although an identity resolution, a release-date
\* call and a provider call failed in it
C2_Witness ==
    /\ run.phase = "done"
    /\ run.ok
    /\ run.resolve_failed # {}
    /\ run.release_failed # {}
    /\ run.provider_failed # {}

\* C3: a film whose release-date call failed in a run is absent from the
\* list the run returns.
C3_FailedFilmDropped ==
    (run.phase = "done" /\ run.ok) =>
        \A i \in 1..Len(run.results) :
            run.results[i].tmdb_id \notin run.release_failed

Returned == run.phase = "done" /\ run.ok

\* C17: every film of a returned list has one of the three categories, and
\* its theatrical and streaming lists are both empty exactly when the
\* category is NoReleases.
C17_EmptyListsIffNoReleases ==
    Returned =>
        \A i \in 1..Len(run.results) :
            LET f == run.results[i]
            IN  /\ f.category \in {LocalUpcoming, LocalAlreadyAvailable, NoReleases}
                /\ (f.theatrical = <<>> /\ f.streaming = <<>>) <=>
                       f.category = NoReleases

\* a returned list with a film that has releases from a fallback country and
\* a film that has none
C17_Witness ==
    /\ Returned
    /\ run.country # "US"
    /\ \E i, j \in 1..Len(run.results) :
           /\ run.results[i].category = NoReleases
           /\ run.results[i].theatrical = <<>> /\ run.results[i].streaming = <<>>
           /\ run.results[j].category = LocalAlreadyAvailable
           /\ \E k \in 1..Len(run.results[j].theatrical) :
                  run.results[j].theatrical[k].note = Some(<<"US">>)

RECURSIVE MinDate(_)
MinDate(list) ==
    IF Len(list) = 1 THEN list[1].date
    ELSE LET rest == MinDate(Tail(list))
         IN  IF list[1].date <= rest THEN list[1].date ELSE rest

\* a film's sort date: the earliest theatrical date, for a film without
\* theatrical entries the earliest streaming date, None for a film without
\* entries
EarliestDate(f) ==
    IF f.theatrical # <<>> THEN Some(MinDate(f.theatrical))
    ELSE IF f.streaming # <<>> THEN Some(MinDate(f.streaming))
    ELSE None

\* ascending dates, a film without a date after every film with one
DateLeqAbsentLast(a, b) == b = None \/ (a # None /\ a[1] <= b[1])

\* C18: a returned list is in ascending order of the films' earliest release
\* dates, and every film without a release date comes after every film that
\* has one.
C18_SortedAbsentLast ==
    Returned =>
        \A i, j \in 1..Len(run.results) :
            i < j => DateLeqAbsentLast(EarliestDate(run.results[i]),
                                       EarliestDate(run.results[j]))

\* the byte order of the words the titles are made of
WordRank(w) ==
    CASE w = " " -> 0
      [] w = "Dune" -> 1
      [] w = "Heat" -> 2
      [] w = "Page" -> 3
      [] w = "Part" -> 4
      [] w = "Ran" -> 5
      [] w = "Two" -> 6
      [] w = "title" -> 7
      [] OTHER -> 8

\* str ordering: lexicographic, a proper prefix first
RECURSIVE TitleLeq(_, _)
TitleLeq(a, b) ==
    IF a = <<>> THEN TRUE
    ELSE IF b = <<>> THEN FALSE
    ELSE IF WordRank(Head(a)) # WordRank(Head(b))
    THEN WordRank(Head(a)) < WordRank(Head(b))
    ELSE TitleLeq(Tail(a), Tail(b))

\* C19: in a returned list, films with the same sort date, films without a
\* date among them, appear in ascending order of title.
C19_TiesByTitle ==
    Returned =>
        \A i, j \in 1..Len(run.results) :
            (i < j /\ EarliestDate(run.results[i]) = EarliestDate(run.results[j])) =>
                TitleLeq(run.results[i].title, run.results[j].title)

\* the films of a returned list as the run would have listed them before the
\* sort had every identity-resolution task completed in queue order: the
\* films found in the identity cache, then the others, each part in
\* watchlist order.  Title, id, releases and providers of a film do not
\* depend on the order in which the tasks complete.
InQueueOrder(results) ==
    LET parts == CachedPart(run.films, run.cached_films)
                     \o UncachedPart(run.films, run.cached_films)
        Listed(f) == \E i \in 1..Len(results) :
                         results[i].letterboxd_slug = f.letterboxd_slug
        listed == SelectSeq(parts, Listed)
    IN  [k \in 1..Len(listed) |->
            results[CHOOSE i \in 1..Len(results) :
                        results[i].letterboxd_slug = listed[k].letterboxd_slug]]

\* C20: the order of a returned list does not depend on the order in which
\* the concurrent tasks complete: it is the order of the run in which, with
\* the same films, cache contents and upstream answers, every task completes
\* in queue order.
C20_OrderIndependentOfCompletion ==
    Returned => run.results = SortResults(InQueueOrder(run.results))

Started == run.phase \notin {"idle"}

ResultSlugs == {run.results[i].letterboxd_slug : i \in 1..Len(run.results)}

\* the calls made for a slug before any catalog id is known
SlugCalls(slug) ==
    Count(run.calls.get_films, slug)
        + Count(run.calls.fetch_letterboxd_film_data, slug)
        + Count(run.calls.search_movie, slug)
        + Count(run.calls.get_movie_details, slug)

\* C21: a run keeps a film of its input exactly when the film's year is
\* unknown or at least current_year - 3; for a film that is not kept no
\* identity-cache read, no detail-page fetch and no catalog call is made, and
\* it is not in the list.
C21_YearFilter ==
    Started =>
        \A i \in 1..Len(run.watchlist) :
            LET f == run.watchlist[i]
                kept == \E k \in 1..Len(run.films) : run.films[k] = f
            IN  /\ kept <=> (f.year = None \/ f.year[1] >= YearOf(Today) - 3)
                /\ ~kept => /\ SlugCalls(f.letterboxd_slug) = 0
                            /\ f.letterboxd_slug \notin ResultSlugs

\* a returned list with a film of exactly current_year - 3, from a watchlist
\* that has an older film
C21_Witness ==
    /\ Returned
    /\ \E i, j \in 1..Len(run.watchlist) :
           /\ run.watchlist[i].year = Some(YearOf(Today) - 3)
           /\ run.watchlist[i].letterboxd_slug \in ResultSlugs
           /\ SlugCalls(run.watchlist[i].letterboxd_slug) > 0
           /\ run.watchlist[j].year = Some(YearOf(Today) - 4)
           /\ run.watchlist[j].letterboxd_slug \notin ResultSlugs

\* the catalog ids the identity rows of the run's films hold
KnownIds ==
    {r.tmdb_id[1] : r \in {x \in film_cache :
                              /\ IsSome(x.tmdb_id)
                              /\ \E i \in 1..Len(run.films) :
                                     run.films[i].letterboxd_slug = x.letterboxd_slug}}

\* no identity row of the slug holds a catalog id
NoIdKnown(slug) ==
    ~\E r \in film_cache : r.letterboxd_slug = slug /\ IsSome(r.tmdb_id)

\* the catalog ids the later stages of the run have worked on
DownstreamIds ==
    {key[1] : key \in DOMAIN run.calls.get_releases \cup DOMAIN run.calls.get_providers
                          \cup DOMAIN run.calls.get_watch_providers}
        \cup DOMAIN run.calls.get_release_dates
        \cup {run.all_films[i].tmdb_id : i \in 1..Len(run.all_films)}
        \cup {run.results[i].tmdb_id : i \in 1..Len(run.results)}

\* C23: once identities are resolved, a film without a catalog id is in no
\* later stage: it is not in the film list nor in the results, every
\* release-cache read, release-date call, provider-cache read and provider
\* call is made for the id of a film that has one, and the run does not end
\* with an error on its account.
C23_UnresolvedDropped ==
    run.phase \in {"release", "provider", "done"} =>
        /\ DownstreamIds \subseteq KnownIds
        /\ \A i \in 1..Len(run.films) :
               LET slug == run.films[i].letterboxd_slug
               IN  NoIdKnown(slug) =>
                       /\ slug \notin ResultSlugs
                       /\ \A k \in 1..Len(run.all_films) : run.all_films[k].slug # slug
        /\ (run.phase = "done" /\ ~run.ok) => run.failed_op # ""

\* a returned list without the film whose search found nothing, next to a
\* film that has its releases
C23_Witness ==
    /\ Returned
    /\ Len(run.films) = 2
    /\ Len(run.results) = 1
    /\ \E i \in 1..Len(run.films) :
           /\ NoIdKnown(run.films[i].letterboxd_slug)
           /\ \E r \in film_cache : r.letterboxd_slug = run.films[i].letterboxd_slug
    /\ DOMAIN run.calls.get_release_dates # {}

StoreOps ==
    {"get_films", "upsert_films", "get_releases", "put_releases_multi_country",
     "get_providers", "put_providers"}

\* C24: when a cache-store operation of a run fails, whichever of the six it
\* is, the run ends there with that error and returns no list: the failed
\* operation is not made again and no later stage runs.
C24_StoreErrorIsFatal ==
    /\ run.failed_op \in StoreOps \cup {""}
    /\ run.failed_op # "" =>
           /\ run.phase = "done"
           /\ ~run.ok
           /\ run.store_failed
           /\ run.pending = <<>> /\ run.inflight = {}
    /\ run.failed_op \in {"get_films"} =>
           /\ run.cached_films = EmptyMap
           /\ DOMAIN run.calls.fetch_letterboxd_film_data = {}
    /\ run.failed_op \in {"get_films", "upsert_films"} => run.all_films = <<>>
    /\ run.failed_op \in {"get_films", "upsert_films", "get_releases"} =>
           DOMAIN run.calls.get_release_dates = {}
    /\ run.failed_op \in StoreOps \ {"put_providers"} =>
           DOMAIN run.calls.get_watch_providers = {}

\* a run ended by the failed write of a provider list, after every earlier
\* stage went through
C24_Witness ==
    /\ run.failed_op = "put_providers"
    /\ run.phase = "done"
    /\ ~run.ok
    /\ DOMAIN run.calls.get_watch_providers # {}
    /\ run.results # <<>>

\* C26: within a run at most one release-date call is made per catalog id,
\* however many countries of the id are missing from the cache and however
\* many films of the watchlist have that id.
C26_OneReleaseCallPerId ==
    \A id \in DOMAIN run.calls.get_release_dates :
        Count(run.calls.get_release_dates, id) <= 1

\* two films with the same id, three countries missing for it, one call
C26_Witness ==
    /\ Returned
    /\ run.country = "NZ"
    /\ Len(run.all_films) = 2
    /\ run.all_films[1].tmdb_id = run.all_films[2].tmdb_id
    /\ Count(run.calls.get_releases, <<run.all_films[1].tmdb_id, "AU">>) = 2
    /\ DOMAIN run.cached_releases = {}
    /\ Count(run.calls.get_release_dates, run.all_films[1].tmdb_id) = 1

\* the title the claim describes for a slug: its words, capitalised, joined
\* by spaces
TitleOfSlug(slug) ==
    CASE slug = "heat" -> <<"Heat">>
      [] slug = "ran" -> <<"Ran">>
      [] slug = "dune-part-two" -> <<"Dune", " ", "Part", " ", "Two">>

YearHint(slug) ==
    LET i == CHOOSE k \in 1..Len(run.films) : run.films[k].letterboxd_slug = slug
    IN  run.films[i].year

\* C34: when the detail fetch of a slug fails the film is not dropped:
\* search is called once with the title made of the slug's words and with
\* the year hint; a search error is the only thing that fails the task, and
\* a search that returns a match resolves the film to the id of the match,
\* under that title and year.
C34_ScrapeFailureFallsBack ==
    \A slug \in DOMAIN run.calls.scrape_err :
        /\ Count(run.calls.search_movie, slug) = 1
        /\ run.calls.search_args[slug] = <<TitleOfSlug(slug), YearHint(slug)>>
        /\ slug \in run.resolve_failed <=> ~run.calls.search_ret[slug].ok
        /\ (run.phase = "resolve" /\ slug \notin run.resolve_failed) =>
               \E i \in 1..Len(run.items) :
                   /\ run.items[i].ok
                   /\ run.items[i].val.slug = slug
                   /\ run.items[i].val.title = TitleOfSlug(slug)
                   /\ run.items[i].val.year = YearHint(slug)
                   /\ run.items[i].val.tmdb_id =
                          IF IsSome(run.calls.search_ret[slug].val)
                          THEN Some(run.calls.search_ret[slug].val[1][1]) ELSE None
        /\ (/\ run.phase \in {"release", "provider"}
            /\ run.calls.search_ret[slug].ok
            /\ IsSome(run.calls.search_ret[slug].val)) =>
               \E i \in 1..Len(run.all_films) :
                   /\ run.all_films[i].slug = slug
                   /\ run.all_films[i].tmdb_id = run.calls.search_ret[slug].val[1][1]
                   /\ run.all_films[i].title = TitleOfSlug(slug)
                   /\ run.all_films[i].year = YearHint(slug)

\* with an access token, the page of dune-part-two cannot be fetched, search
\* finds a match and the film is in the returned list under the fallback
\* title
C34_Witness ==
    /\ Returned
    /\ ~TokenIsEmpty(run.token)
    /\ "dune-part-two" \in DOMAIN run.calls.scrape_err
    /\ \E i \in 1..Len(run.results) :
           /\ run.results[i].letterboxd_slug = "dune-part-two"
           /\ run.results[i].tmdb_id = 603
           /\ run.results[i].title = <<"Dune", " ", "Part", " ", "Two">>

\* C37: within a run at most one watch-provider request is sent upstream
\* per (catalog id, country) pair, also when several slugs of the watchlist
\* resolve to the same catalog id.
C37_OneProviderCallPerPair ==
    ~TokenIsEmpty(run.token) =>
        \A key \in DOMAIN run.calls.get_watch_providers :
            Count(run.calls.get_watch_providers, key) <= 1

SameDayAndKind(list) ==
    \E i, j \in 1..Len(list) :
        /\ i < j
        /\ list[i].date = list[j].date
        /\ list[i].release_type = list[j].release_type

\* C38: every per-country release set a release-date task returns has no
\* two entries with the same date and kind, and its write to the release
\* cache succeeds.
C38_ProducedSetsCanBeStored ==
    run.phase = "release" =>
        \A i \in 1..Len(run.items) :
            run.items[i].ok =>
                LET item == run.items[i].val
                    found == WithEmptyEntries(item.found, item.countries)
                IN  /\ \A k \in 1..Len(found) :
                           /\ ~SameDayAndKind(found[k].theatrical)
                           /\ ~SameDayAndKind(found[k].streaming)
                    /\ put_releases_multi_country(ReleaseDb, item.tmdb_id, found, now).ok

-----------------------------------------------------------------------------
(* Spec: a sequence of process runs over one store, the clock advancing     *)
(* between them                                                             *)

SeqWatchlists == {<<WishlistFilm("heat", None)>>}

SeqCountries == {"US", "FR"}

SeqConcurrencies == {1}

SeqResolveIo ==
    {[slug \in FilmSlugs |->
         [scrape |-> ScrapeFailed, search |-> SearchMatch, details |-> DetailsFailed]],
     [slug \in FilmSlugs |->
         [scrape |-> PageWithId(slug), search |-> SearchFailed, details |-> DetailsPoster]]}

SeqReleaseResps ==
    {[ok |-> FALSE, results |-> <<>>],
     [ok |-> TRUE, results |->
         <<CountryEntry("FR", <<Upstream(Timestamp(20261201), 3, Some(<<"a">>))>>)>>],
     [ok |-> TRUE, results |->
         <<CountryEntry("US", <<Upstream(Timestamp(20250615), 3, None),
                                 Upstream(Timestamp(20270601), 4, None)>>)>>]}

SeqProviderResps ==
    {[ok |-> FALSE, results |-> EmptyMap],
     [ok |-> TRUE, results |->
         [c \in Countries |->
             [link |-> None, flatrate |-> Some(<<Offer(8, "Netflix")>>),
              rent |-> None, buy |-> None]]]}

Next ==
    \/ ProcTick
    \/ ProcStart(SeqWatchlists, SeqCountries, SeqConcurrencies, RunTokens, MaxRuns)
    \/ ProcTaskStart
    \/ ProcResolveFinish(SeqResolveIo)
    \/ ProcResolveDone
    \/ ProcReleaseFinish(SeqReleaseResps)
    \/ ProcReleaseDone
    \/ ProcProviderFinish(SeqProviderResps)
    \/ ProcProviderDone

Spec == Init /\ [][Next]_vars

HasMockNote(row) == IsSome(row.note) /\ Contains(row.note[1], MockMarker)

FreshIdentityRows(slug) ==
    {r \in film_cache : /\ r.letterboxd_slug = slug
                        /\ IsSome(r.tmdb_id)
                        /\ now - r.updated_at <= film_ttl_seconds}

ResolverCalls(slug) ==
    Count(run.calls.fetch_letterboxd_film_data, slug)
        + Count(run.calls.search_movie, slug)

\* C22: for a slug whose identity row is fresh and holds a catalog id, a run
\* makes no detail-page fetch and no catalog search (no task is queued for
\* it while identities are resolved), and the film of a returned list has
\* the id, title, year and poster of the row the run read.
C22_CachedIdentityUsed ==
    /\ run.phase = "resolve" =>
           \A i \in 1..Len(run.films) :
               LET slug == run.films[i].letterboxd_slug
               IN  FreshIdentityRows(slug) # {} =>
                       /\ ResolverCalls(slug) = 0
                       /\ \A k \in 1..Len(run.pending) :
                              run.pending[k].input.letterboxd_slug # slug
                       /\ \A t \in run.inflight : t.input.letterboxd_slug # slug
    /\ Returned =>
           \A slug \in DOMAIN run.cached_films :
               LET row == run.cached_films[slug]
               IN  IsSome(row.tmdb_id) =>
                       /\ ResolverCalls(slug) = 0
                       /\ \E i \in 1..Len(run.results) :
                              /\ run.results[i].letterboxd_slug = slug
                              /\ run.results[i].tmdb_id = row.tmdb_id[1]
                              /\ run.results[i].title = row.title
                              /\ run.results[i].year = row.year
                              /\ run.results[i].poster_path = row.poster_path

\* a second run returns a film from the row the first run stored
C22_Witness ==
    /\ Returned
    /\ run.n = 2
    /\ \E slug \in DOMAIN run.cached_films :
           /\ IsSome(run.cached_films[slug].tmdb_id)
           /\ slug \in ResultSlugs
           /\ ResolverCalls(slug) = 0

\* SpecExpiry: one more run than Spec, with an access token, so that a pair
\* the first run stored can run out while a pair the second run stored is
\* still fresh
ExpiryTokens == {<<"key">>}

ExpiryResolveIo ==
    {[slug \in FilmSlugs |->
         [scrape |-> PageWithId(slug), search |-> SearchFailed, details |-> DetailsPoster]]}

ExpiryProviderResps ==
    {[ok |-> TRUE, results |->
         [c \in Countries |->
             [link |-> None, flatrate |-> Some(<<Offer(8, "Netflix")>>),
              rent |-> None, buy |-> None]]]}

NextExpiry ==
    \/ ProcTick
    \/ ProcStart(SeqWatchlists, SeqCountries, SeqConcurrencies, ExpiryTokens, MaxRuns + 1)
    \/ ProcTaskStart
    \/ ProcResolveFinish(ExpiryResolveIo)
    \/ ProcResolveDone
    \/ ProcReleaseFinish(SeqReleaseResps)
    \/ ProcReleaseDone
    \/ ProcProviderFinish(ExpiryProviderResps)
    \/ ProcProviderDone

SpecExpiry == Init /\ [][NextExpiry]_vars

\* the run has stored what its release-date calls returned
ReleasesStored ==
    \/ run.phase = "provider"
    \/ /\ run.phase = "done"
       /\ run.films # <<>>
       /\ run.failed_op \in {"", "get_providers", "put_providers"}

\* the pairs the run asked the release cache for and did not get
MissingPairs ==
    {key \in DOMAIN run.calls.get_releases : key \notin DOMAIN run.cached_releases}

FreshReleaseMeta(key) ==
    \E i \in 1..Len(release_cache_meta) :
        /\ release_cache_meta[i].tmdb_id = key[1]
        /\ release_cache_meta[i].country = key[2]
        /\ now - release_cache_meta[i].cached_at <= release_ttl_seconds

\* the next run asks for the same country within the release TTL of a run
\* that returned its list
SameCountryWithinReleaseTtl ==
    /\ Started
    /\ run.prev.ok
    /\ run.prev.country = run.country
    /\ now - run.prev.at <= release_ttl_seconds

\* the statement as the specification has it: once a run has stored the
\* answer of a successful release-date call for an id, every requested pair
\* of the id that was missing has a fresh meta row, and a next run for the
\* same country within the release TTL makes no release-date call for the id
C27_NoCallWithinTtl ==
    /\ ReleasesStored =>
           \A key \in MissingPairs :
               (/\ key[1] \in DOMAIN run.calls.get_release_dates
                /\ key[1] \notin run.release_failed) => FreshReleaseMeta(key)
    /\ SameCountryWithinReleaseTtl =>
           \A id \in run.prev.release_ok : Count(run.calls.get_release_dates, id) = 0

\* C27: once a run has stored the answer of a successful release-date call
\* for an id, every pair of that id that was requested and missing from the
\* cache has a fresh meta row, the countries the answer did not list
\* included; a next run for the same country within the release TTL whose
\* cache lookup succeeds finds every one of those pairs in the cache, and
\* makes a release-date call for the id only when another pair of the id,
\* one the earlier run had found in the cache, is missing by now.
C27_MissingPairsBecomeFresh ==
    /\ ReleasesStored =>
           \A key \in MissingPairs :
               (/\ key[1] \in DOMAIN run.calls.get_release_dates
                /\ key[1] \notin run.release_failed) => FreshReleaseMeta(key)
    /\ SameCountryWithinReleaseTtl =>
           /\ run.failed_op # "get_releases" =>
                  run.prev.release_pairs \cap MissingPairs = {}
           /\ \A id \in run.prev.release_ok :
                  \/ Count(run.calls.get_release_dates, id) = 0
                  \/ \E key \in MissingPairs :
                         key[1] = id /\ key \notin run.prev.release_pairs

\* a second run for FR finds the empty FR set the first run stored for a
\* country the answer did not list, and makes no release-date call
C27_Witness ==
    /\ Returned
    /\ SameCountryWithinReleaseTtl
    /\ run.country = "FR"
    /\ \E id \in run.prev.release_ok :
           /\ <<id, "FR">> \in DOMAIN run.cached_releases
           /\ run.cached_releases[<<id, "FR">>] = <<<<>>, <<>>>>
           /\ \E i \in 1..Len(run.results) : run.results[i].tmdb_id = id
    /\ DOMAIN run.calls.get_release_dates = {}

-----------------------------------------------------------------------------
(* SpecFan: one run whose three fan-outs each have more tasks than the      *)
(* concurrency limit allows in flight                                       *)

MaxConcurrent == 2    \* the largest max_concurrent a run is given

FanWatchlists ==
    {<<WishlistFilm("heat", None), WishlistFilm("dune-part-two", None),
       WishlistFilm("ran", None)>>}

FanCountries == {"US", "FR"}

FanConcurrencies == 0..MaxConcurrent

FanResolveIo ==
    {[slug \in FilmSlugs |->
         [scrape |-> PageWithId(slug), search |-> SearchFailed, details |-> DetailsPoster]]}

FanReleaseResps ==
    {[ok |-> FALSE, results |-> <<>>],
     [ok |-> TRUE, results |->
         <<CountryEntry("US", <<Upstream(Timestamp(20250615), 3, None)>>)>>]}

FanProviderResps ==
    {[ok |-> TRUE, results |->
         [c \in Countries |->
             [link |-> None, flatrate |-> Some(<<Offer(8, "Netflix")>>),
              rent |-> None, buy |-> None]]]}

NextFan ==
    \/ ProcStart(FanWatchlists, FanCountries, FanConcurrencies, {<<"key">>}, 1)
    \/ ProcTaskStart
    \/ ProcResolveFinish(FanResolveIo)
    \/ ProcResolveDone
    \/ ProcReleaseFinish(FanReleaseResps)
    \/ ProcReleaseDone
    \/ ProcProviderFinish(FanProviderResps)
    \/ ProcProviderDone

SpecFan == Init /\ [][NextFan]_vars

InFlight == Cardinality(run.inflight)

\* C1: in the identity, release and provider fan-outs of a run at most
\* max_concurrent tasks are in flight at any moment, and at most one when
\* max_concurrent is 0.
C1_InFlightBounded ==
    run.phase \in {"resolve", "release", "provider"} =>
        InFlight <= (IF run.max_concurrent >= 1 THEN run.max_concurrent ELSE 1)

\* the last fan-out is reached with the limit of tasks in flight and one
\* more waiting
C1_Witness ==
    /\ run.phase = "provider"
    /\ run.max_concurrent = 2
    /\ InFlight = 2
    /\ run.pending # <<>>

-----------------------------------------------------------------------------
(* SpecWatch: get_watch_providers applied to bounded upstream responses     *)

MaxOffers == 2    \* offers upstream lists under one category

WatchOffers == {Offer(8, "Netflix"), Offer(2, "Apple TV"), Offer(3, "Google Play")}

\* the offer lists of one category: upstream names a provider once in it
OfferLists ==
    {l \in SeqsUpTo(WatchOffers, MaxOffers) :
        \A i, j \in 1..Len(l) : i # j => l[i].provider_id # l[j].provider_id}

OfferOptions == {None} \cup {Some(l) : l \in OfferLists}

WatchRequests ==
    {[phase |-> "request", token |-> <<"key">>, country |-> "FR",
      resp |-> [ok |-> TRUE,
                results |-> [c \in {"FR"} |->
                                [link |-> Some("https://watch"), flatrate |-> f,
                                 rent |-> r, buy |-> b]]],
      result |-> [ok |-> FALSE, providers |-> <<>>]] :
        f \in OfferOptions, r \in OfferOptions, b \in OfferOptions}
    \cup
    {[phase |-> "request", token |-> k, country |-> c,
      resp |-> [ok |-> o,
                results |-> [x \in {"FR"} |->
                                [link |-> None, flatrate |-> Some(<<Offer(8, "Netflix")>>),
                                 rent |-> None, buy |-> None]]],
      result |-> [ok |-> FALSE, providers |-> <<>>]] :
        k \in Tokens, c \in {"FR", "US"}, o \in BOOLEAN}

InitWatch ==
    /\ film_cache = {}
    /\ release_cache = <<>>
    /\ release_cache_meta = <<>>
    /\ provider_cache = <<>>
    /\ provider_cache_meta = <<>>
    /\ now = 0
    /\ tq \in WatchRequests
    /\ cq = Idle
    /\ wr = Idle
    /\ rd = Idle
    /\ run = Idle

WatchGetProviders ==
    /\ tq.phase = "request"
    /\ tq' = [tq EXCEPT !.phase = "done",
                        !.result = get_watch_providers(tq.token, tq.resp, tq.country)]
    /\ UNCHANGED <<dbVars, cq, wr, rd, run>>

NextWatch == WatchGetProviders

SpecWatch == InitWatch /\ [][NextWatch]_vars

OfferIds(o) == {OffersOf(o)[i].provider_id : i \in 1..Len(OffersOf(o))}

-----------------------------------------------------------------------------
(* SpecFallback: get_releases_with_fallback_bulk applied to bounded release *)
(* sets of the requested country, AU and US                                 *)

FbId == CHOOSE id \in {603} : TRUE

FbCodes == <<"FR", "NZ", "AU", "US">>

UpTh1 == ReleaseDate(20261201, Theatrical, None)
UpTh2 == ReleaseDate(20270301, Theatrical, Some(<<"a">>))
UpSt == ReleaseDate(20270601, Digital, None)
UpStNoted == ReleaseDate(20270115, Digital, Some(<<"a">>))
AaTh == ReleaseDate(20250615, Theatrical, Some(AlreadyAvailable))
AaSt == ReleaseDate(20260901, Digital, Some(AlreadyAvailable))
\* an upcoming entry whose provider note reads "Already available"
UpThNotedAa == ReleaseDate(20270301, Theatrical, Some(AlreadyAvailable))

\* release sets as get_release_dates and get_releases produce them: per kind
\* either upcoming entries in date order or the one backfilled entry
FbSets ==
    {<<<<>>, <<>>>>,
     <<<<UpTh1>>, <<>>>>,
     <<<<UpTh1, UpTh2>>, <<UpSt>>>>,
     <<<<>>, <<UpSt>>>>,
     <<<<AaTh>>, <<>>>>,
     <<<<AaTh>>, <<UpStNoted>>>>,
     <<<<UpTh2>>, <<AaSt>>>>,
     <<<<UpTh1, UpThNotedAa>>, <<UpSt>>>>,
     <<<<AaTh>>, <<AaSt>>>>}

IsEmptySet(set) == set[1] = <<>> /\ set[2] = <<>>

\* the sets of the codes in `codes` as the cache returned them
AsCached(data, codes) == [key \in {<<FbId, c>> : c \in codes} |-> data[key[2]]]

\* the non-empty sets of the codes in `codes` as this run fetched them
AsNew(data, codes) ==
    LET Listed(c) == c \in codes /\ ~IsEmptySet(data[c])
        listed == SelectSeq(FbCodes, Listed)
    IN  IF listed = <<>> THEN EmptyMap
        ELSE [id \in {FbId} |->
                 [i \in 1..Len(listed) |->
                     CountryReleases(listed[i], data[listed[i]][1], data[listed[i]][2])]]

FallbackRequests ==
    {[phase |-> "request", country |-> c, data |-> d,
      cached_releases |-> AsCached(d, cached),
      new_releases |-> AsNew(d, DOMAIN d \ cached),
      result |-> Releases(<<>>, <<>>, NoReleases)] :
        c \in {"FR", "NZ", "US"},
        d \in [{"FR", "NZ", "AU", "US"} -> FbSets],
        cached \in {{}, {"FR", "NZ"}, {"FR", "NZ", "AU", "US"}}}

InitFallback ==
    /\ film_cache = {}
    /\ release_cache = <<>>
    /\ release_cache_meta = <<>>
    /\ provider_cache = <<>>
    /\ provider_cache_meta = <<>>
    /\ now = 0
    /\ tq \in {r \in FallbackRequests :
                  \A c \in {"FR", "NZ"} \ {r.country} : r.data[c] = <<<<>>, <<>>>>}
    /\ cq = Idle
    /\ wr = Idle
    /\ rd = Idle
    /\ run = Idle

FallbackResolve ==
    /\ tq.phase = "request"
    /\ tq' = [tq EXCEPT !.phase = "done",
                        !.result = get_releases_with_fallback_bulk(
                                       tq.cached_releases, tq.new_releases,
                                       FbId, tq.country)]
    /\ UNCHANGED <<dbVars, cq, wr, rd, run>>

NextFallback == FallbackResolve

SpecFallback == InitFallback /\ [][NextFallback]_vars

\* the entries of both output lists
EntriesOf(rel) ==
    {rel.theatrical[i] : i \in 1..Len(rel.theatrical)}
        \cup {rel.streaming[i] : i \in 1..Len(rel.streaming)}

AllTagged(rel, code) == \A r \in EntriesOf(rel) : r.note = Some(<<code>>)

FallbackDone == tq.phase = "done"

\* the requested country has no releases and the US set has some
UsFallbackCase ==
    /\ FallbackDone
    /\ tq.country # "US"
    /\ IsEmptySet(tq.data[tq.country])
    /\ ~IsEmptySet(tq.data["US"])

\* NoReleases only when every tier consulted for the country is empty
NoReleasesOnlyWhenAllEmpty ==
    (FallbackDone /\ tq.result.category = NoReleases) =>
        /\ IsEmptySet(tq.data[tq.country])
        /\ tq.country # "US" => IsEmptySet(tq.data["US"])
        /\ tq.country = "NZ" => IsEmptySet(tq.data["AU"])

\* C13 (as amended): for a requested country other than US whose own release
\* set is empty while the US set is not, the resolver returns
\* LocalAlreadyAvailable or LocalUpcoming with entries and never tags them
\* with the requested country: they are tagged "US", except for NZ with a
\* non-empty AU set, where they are tagged "AU"; and NoReleases is returned
\* only when every tier consulted for the country is empty.
C13_UsFallback ==
    /\ UsFallbackCase =>
           /\ tq.result.category \in {LocalAlreadyAvailable, LocalUpcoming}
           /\ EntriesOf(tq.result) # {}
           /\ AllTagged(tq.result,
                        IF tq.country = "NZ" /\ ~IsEmptySet(tq.data["AU"])
                        THEN "AU" ELSE "US")
    /\ NoReleasesOnlyWhenAllEmpty

\* C13 as stated: the entries are tagged "US" for every such country
C13_AlwaysTaggedUs ==
    /\ UsFallbackCase =>
           /\ tq.result.category \in {LocalAlreadyAvailable, LocalUpcoming}
           /\ AllTagged(tq.result, "US")
    /\ NoReleasesOnlyWhenAllEmpty

\* FR asked, no FR data, upcoming US data: LocalUpcoming tagged "US"
C13_Witness ==
    /\ UsFallbackCase
    /\ tq.country = "FR"
    /\ tq.data["US"] = <<<<UpTh1>>, <<>>>>
    /\ tq.result = Releases(Tagged(<<UpTh1>>, "US"), <<>>, LocalUpcoming)

HasAlreadyAvailable(set) ==
    \/ \E i \in 1..Len(set[1]) : IsAlreadyAvailable(set[1][i])
    \/ \E i \in 1..Len(set[2]) : IsAlreadyAvailable(set[2][i])

\* NZ asked and no NZ releases
NzFallbackCase ==
    /\ FallbackDone
    /\ tq.country = "NZ"
    /\ IsEmptySet(tq.data["NZ"])

\* C14: with NZ requested and no NZ releases the AU set is used before the US
\* one: a non-empty AU set supplies every entry, tagged "AU", whatever the US
\* set holds, and AU upcoming entries alone give LocalUpcoming; entries tagged
\* "US" appear only when the AU set is empty; and for a requested country
\* other than NZ the AU set is never used: no entry is tagged "AU", and a film
\* with neither own nor US releases has NoReleases even when AU has some.
C14_AuBeforeUsForNz ==
    /\ (NzFallbackCase /\ ~IsEmptySet(tq.data["AU"])) =>
           /\ EntriesOf(tq.result) # {}
           /\ AllTagged(tq.result, "AU")
           /\ tq.result.category =
                  IF HasAlreadyAvailable(tq.data["AU"])
                  THEN LocalAlreadyAvailable ELSE LocalUpcoming
    /\ (NzFallbackCase /\ \E r \in EntriesOf(tq.result) : r.note = Some(<<"US">>)) =>
           IsEmptySet(tq.data["AU"])
    /\ (FallbackDone /\ tq.country # "NZ") =>
           /\ \A r \in EntriesOf(tq.result) : r.note # Some(<<"AU">>)
           /\ (IsEmptySet(tq.data[tq.country]) /\ IsEmptySet(tq.data["US"])) =>
                  tq.result = Releases(<<>>, <<>>, NoReleases)

\* NZ asked, AU upcoming releases only: LocalUpcoming tagged "AU"
C14_Witness ==
    /\ NzFallbackCase
    /\ tq.data["AU"] = <<<<UpTh1, UpTh2>>, <<UpSt>>>>
    /\ IsEmptySet(tq.data["US"])
    /\ tq.result = Releases(Tagged(<<UpTh1, UpTh2>>, "AU"), Tagged(<<UpSt>>, "AU"),
                            LocalUpcoming)

\* the tiers of a requested country, in the order they are tried
TierCodes(country) ==
    IF country = "US" THEN <<"US">>
    ELSE IF country = "NZ" THEN <<"NZ", "AU", "US">>
    ELSE <<country, "US">>

\* the first tier whose release set is not empty
NonEmptyTiers == {i \in 1..Len(TierCodes(tq.country)) :
                     ~IsEmptySet(tq.data[TierCodes(tq.country)[i]])}
UsedTier == TierCodes(tq.country)[CHOOSE i \in NonEmptyTiers :
                                      \A j \in NonEmptyTiers : i <= j]

\* a list without its notes
Unnoted(list) == [i \in 1..Len(list) |-> <<list[i].date, list[i].release_type>>]

AvailableThenUpcoming(list) ==
    Unnoted(SelectSeq(list, IsAlreadyAvailable) \o SelectSeq(list, IsUpcoming))

\* C15: the result comes from the first tier whose release set is not empty,
\* the requested country's first; if that set has an entry noted "Already
\* available" in either kind the category is LocalAlreadyAvailable, otherwise
\* LocalUpcoming; and each output list holds the set's already available
\* entries of that kind followed by its upcoming ones.
C15_AvailableBeforeUpcoming ==
    (FallbackDone /\ NonEmptyTiers # {}) =>
        /\ tq.result.category =
               IF HasAlreadyAvailable(tq.data[UsedTier])
               THEN LocalAlreadyAvailable ELSE LocalUpcoming
        /\ Unnoted(tq.result.theatrical) = AvailableThenUpcoming(tq.data[UsedTier][1])
        /\ Unnoted(tq.result.streaming) = AvailableThenUpcoming(tq.data[UsedTier][2])

\* FR asked with an upcoming FR entry listed before one noted "Already
\* available", while the US set has already available entries only
C15_Witness ==
    /\ FallbackDone
    /\ tq.country = "FR"
    /\ tq.data["FR"] = <<<<UpTh1, UpThNotedAa>>, <<UpSt>>>>
    /\ tq.data["US"] = <<<<AaTh>>, <<AaSt>>>>
    /\ tq.result.category = LocalAlreadyAvailable
    /\ Unnoted(tq.result.theatrical) = Unnoted(<<UpThNotedAa, UpTh1>>)

\* C16: every entry of the output lists has as its note the code of the tier
\* that supplied it (the requested country, "AU" or "US"), whatever note the
\* provider gave, for upcoming and already available entries alike.
C16_EveryEntryTagged ==
    (FallbackDone /\ NonEmptyTiers # {}) => AllTagged(tq.result, UsedTier)

-----------------------------------------------------------------------------
(* src/src/routes.rs: the process route handler.  A string is the sequence  *)
(* of its characters.                                                       *)

MaxCountryLen == 3    \* characters of a country parameter

AsciiLetters == {"n", "z", "N", "Z", "S"}

\* str::to_uppercase, character by character: a character can map to more
\* than one (U+00DF maps to "SS")
UpperChar(c) ==
    CASE c = "n" -> <<"N">>
      [] c = "z" -> <<"Z">>
      [] c = "ß" -> <<"S", "S">>
      [] c = "é" -> <<"É">>
      [] OTHER -> <<c>>

RECURSIVE to_uppercase(_)
to_uppercase(str) ==
    IF str = <<>> THEN <<>> ELSE UpperChar(Head(str)) \o to_uppercase(Tail(str))

\* the UTF-8 length of a character
Utf8Len(c) == IF c \in {"ß", "é", "É"} THEN 2 ELSE 1

\* str::len: the length in bytes
RECURSIVE ByteLen(_)
ByteLen(str) == IF str = <<>> THEN 0 ELSE Utf8Len(Head(str)) + ByteLen(Tail(str))

is_ascii_alphabetic(c) == c \in AsciiLetters

\* country.len() != 2 || !country.chars().all(|c| c.is_ascii_alphabetic())
CountryIsValid(country) ==
    /\ ByteLen(country) = 2
    /\ \A i \in 1..Len(country) : is_ascii_alphabetic(country[i])

RouteUsernames == {<<>>, <<" ">>, <<"a">>, <<" ", "a", " ">>}

RouteChars == {"n", "Z", " ", "1", "ß", "é"}

RouteCountries == SeqsUpTo(RouteChars, MaxCountryLen)

InitRoute ==
    /\ film_cache = {}
    /\ release_cache = <<>>
    /\ release_cache_meta = <<>>
    /\ provider_cache = <<>>
    /\ provider_cache_meta = <<>>
    /\ now = 0
    /\ tq \in {[phase |-> "request", q |-> [username |-> u, country |-> c],
                username |-> <<>>, country |-> <<>>, io |-> {}] :
                  u \in RouteUsernames, c \in RouteCountries}
    /\ cq = Idle
    /\ wr = Idle
    /\ rd = Idle
    /\ run = Idle

\* the parameters are normalised and validated
RouteValidate ==
    /\ tq.phase = "request"
    /\ LET username == Trim(tq.q.username)
           country == to_uppercase(Trim(tq.q.country))
       IN  tq' = [tq EXCEPT !.username = username, !.country = country,
                            !.phase = IF username = <<>> \/ ~CountryIsValid(country)
                                      THEN "error" ELSE "validated"]
    /\ UNCHANGED <<dbVars, cq, wr, rd, run>>

\* scraper::fetch_watchlist: it fails, finds nothing or finds films
RouteFetchWatchlist ==
    /\ tq.phase = "validated"
    /\ \E outcome \in {"error", "empty", "watchlist"} :
           tq' = [tq EXCEPT !.phase = outcome, !.io = @ \cup {"fetch_watchlist"}]
    /\ UNCHANGED <<dbVars, cq, wr, rd, run>>

\* processor::process: the cache and the catalog are used
RouteProcess ==
    /\ tq.phase = "watchlist"
    /\ \E outcome \in {"error", "results"} :
           tq' = [tq EXCEPT !.phase = outcome, !.io = @ \cup {"cache", "catalog"}]
    /\ UNCHANGED <<dbVars, cq, wr, rd, run>>

NextRoute == RouteValidate \/ RouteFetchWatchlist \/ RouteProcess

SpecRoute == InitRoute /\ [][NextRoute]_vars

\* exactly two ASCII letters, surrounding white space and case set aside
TwoAsciiLetters(str) ==
    /\ Len(Trim(str)) = 2
    /\ \A i \in 1..Len(Trim(str)) : Trim(str)[i] \in AsciiLetters

\* C25: a request whose username is empty once trimmed, or whose country is
\* not exactly two ASCII letters, does no I/O at all: no watchlist fetch, no
\* cache access, no catalog call.
C25_InvalidRequestDoesNoIo ==
    (Trim(tq.q.username) = <<>> \/ ~TwoAsciiLetters(tq.q.country)) => tq.io = {}

-----------------------------------------------------------------------------
(* src/src/tmdb.rs: the rate limiter of TmdbClient.  The client is built    *)
(* once (main.rs) and shared by every run; its limiter is a bucket of       *)
(* rps.max(1) cells, a cell being taken by until_ready and given back as    *)
(* time passes.                                                             *)

MaxCalls == 3         \* concurrent calls of the client
MaxRps == 2           \* configured requests per second
MaxRefills == 2       \* cells given back in one behaviour

Methods == {"search_movie", "get_movie_details", "get_release_dates",
            "get_watch_providers"}

\* Quota::per_second(NonZeroU32::new(rps.max(1)).unwrap())
Quota(rps) == IF rps > 1 THEN rps ELSE 1

\* variant: get_movie_details sends its request without waiting
StepsSkippingLimiter(method) ==
    IF method = "get_movie_details" THEN <<"send">> ELSE <<"until_ready", "send">>

\* what a method does once the access token is known not to be empty
StepsOf(method) ==
    CASE method = "search_movie" -> <<"until_ready", "send">>
      [] method = "get_movie_details" -> <<"until_ready", "send">>
      [] method = "get_release_dates" -> <<"until_ready", "send">>
      [] method = "get_watch_providers" -> <<"until_ready", "send">>

\* RateLimiter::until_ready returns when a cell is free
until_ready(cells) == cells > 0

NoClientCall == [method |-> "", step |-> 0, acquired |-> FALSE, sent |-> FALSE,
                 returned |-> FALSE]

InitLimiter ==
    /\ film_cache = {}
    /\ release_cache = <<>>
    /\ release_cache_meta = <<>>
    /\ provider_cache = <<>>
    /\ provider_cache_meta = <<>>
    /\ now = 0
    /\ tq \in {[access_token |-> tok, quota |-> Quota(rps), cells |-> Quota(rps),
                refills |-> 0, calls |-> [c \in 1..MaxCalls |-> NoClientCall]] :
                  tok \in {<<>>, <<" ">>, <<"key">>}, rps \in 0..MaxRps}
    /\ cq = Idle
    /\ wr = Idle
    /\ rd = Idle
    /\ run = Idle

\* a task calls a method of the client: without an access token the mock
\* answer is returned at once
LimCall ==
    /\ \E c \in 1..MaxCalls, method \in Methods :
        /\ tq.calls[c].method = ""
        /\ tq' = [tq EXCEPT !.calls[c] =
                      IF TokenIsEmpty(tq.access_token)
                      THEN [NoClientCall EXCEPT !.method = method, !.returned = TRUE]
                      ELSE [NoClientCall EXCEPT !.method = method, !.step = 1]]
    /\ UNCHANGED <<dbVars, cq, wr, rd, run>>

\* self.limiter.until_ready().await: the call is suspended until a cell is free
LimUntilReady ==
    /\ \E c \in 1..MaxCalls :
        LET call == tq.calls[c]
        IN  /\ call.method \in Methods
            /\ call.step \in 1..Len(StepsOf(call.method))
            /\ StepsOf(call.method)[call.step] = "until_ready"
            /\ until_ready(tq.cells)
            /\ tq' = [tq EXCEPT !.cells = @ - 1,
                                !.calls[c].step = @ + 1,
                                !.calls[c].acquired = TRUE]
    /\ UNCHANGED <<dbVars, cq, wr, rd, run>>

\* the request is sent and the call returns
LimSend ==
    /\ \E c \in 1..MaxCalls :
        LET call == tq.calls[c]
        IN  /\ call.method \in Methods
            /\ call.step \in 1..Len(StepsOf(call.method))
            /\ StepsOf(call.method)[call.step] = "send"
            /\ tq' = [tq EXCEPT !.calls[c].step = 0,
                                !.calls[c].sent = TRUE,
                                !.calls[c].returned = TRUE]
    /\ UNCHANGED <<dbVars, cq, wr, rd, run>>

\* time passes and a cell is given back
LimReplenish ==
    /\ tq.refills < MaxRefills
    /\ tq.cells < tq.quota
    /\ tq' = [tq EXCEPT !.cells = @ + 1, !.refills = @ + 1]
    /\ UNCHANGED <<dbVars, cq, wr, rd, run>>

NextLimiter == LimCall \/ LimUntilReady \/ LimSend \/ LimReplenish

SpecLimiter == InitLimiter /\ [][NextLimiter]_vars

SentCalls == {c \in 1..MaxCalls : tq.calls[c].sent}
AcquiredCalls == {c \in 1..MaxCalls : tq.calls[c].acquired}

\* C28: a request of any of the four methods is sent only after its call
\* took a cell of the one limiter of the client: the requests sent never
\* outnumber the cells the limiter had or got back, a call that finds no
\* free cell stays suspended, and with an access token every call that
\* returned has sent its request through the limiter.
C28_RequestsPassLimiter ==
    /\ SentCalls \subseteq AcquiredCalls
    /\ tq.cells >= 0
    /\ Cardinality(AcquiredCalls) = tq.quota + tq.refills - tq.cells
    /\ Cardinality(SentCalls) <= tq.quota + tq.refills
    /\ \A c \in 1..MaxCalls :
           LET call == tq.calls[c]
           IN  /\ TokenIsEmpty(tq.access_token) => ~call.sent /\ ~call.acquired
               /\ (~TokenIsEmpty(tq.access_token) /\ call.returned) =>
                      call.sent /\ call.acquired

\* with one cell, one call has sent its request and the two others are
\* suspended until a cell is given back
C28_Witness ==
    /\ tq.quota = 1
    /\ tq.cells = 0
    /\ Cardinality(SentCalls) = 1
    /\ \A c \in 1..MaxCalls :
           tq.calls[c].method # "" /\ (~tq.calls[c].sent => tq.calls[c].step = 1)
    /\ {tq.calls[c].method : c \in 1..MaxCalls} =
           {"search_movie", "get_movie_details", "get_watch_providers"}

-----------------------------------------------------------------------------
(* src/src/cache.rs: the provider cache on its own, put_providers and      *)
(* get_providers called in any order as time passes.                       *)

ProvPairs == {<<1, "NZ">>, <<2, "NZ">>}

ProvOffers ==
    {WatchProvider(Offer(8, "Netflix"), Some("https://watch"), Stream),
     WatchProvider(Offer(8, "Netflix"), Some("https://watch"), Rent),
     WatchProvider(Offer(2, "Apple TV"), None, Buy)}

\* provider lists as get_watch_providers builds them: a provider id is
\* collected once
ProvLists ==
    {l \in SeqsUpTo(ProvOffers, 2) :
        \A i, j \in 1..Len(l) : i # j => l[i].provider_id # l[j].provider_id}

ProvRequests == {<<p>> : p \in ProvPairs} \cup {<<<<1, "NZ">>, <<2, "NZ">>>>}

NoProvCall == [op |-> "none", n |-> 0, at |-> 0, ok |-> TRUE,
               requests |-> <<>>, result |-> EmptyMap,
               written |-> [p \in ProvPairs |-> None]]

InitProv ==
    /\ film_cache = {}
    /\ release_cache = <<>>
    /\ release_cache_meta = <<>>
    /\ provider_cache = <<>>
    /\ provider_cache_meta = <<>>
    /\ now = 0
    /\ tq = Idle
    /\ cq = NoProvCall
    /\ wr = Idle
    /\ rd = Idle
    /\ run = Idle

\* time passes between two calls
ProvTick ==
    /\ now < MaxTime
    /\ now' = now + 1
    /\ UNCHANGED <<film_cache, release_cache, release_cache_meta,
                   provider_cache, provider_cache_meta, tq, cq, wr, rd, run>>

\* put_providers: a failed statement or commit leaves the transaction
\* uncommitted and the tables as they were
ProvPutProviders ==
    \E p \in ProvPairs, providers \in ProvLists, ok \in BOOLEAN :
        LET db == IF ok THEN put_providers(ProviderDb, p[1], p[2], providers, now)
                  ELSE ProviderDb
        IN  /\ cq.n < MaxCacheOps
            /\ ~ok => providers # <<>>
            /\ provider_cache' = db.rows
            /\ provider_cache_meta' = db.meta
            /\ cq' = [cq EXCEPT !.op = "put_providers", !.n = @ + 1, !.at = now,
                                !.ok = ok, !.requests = <<p>>, !.result = EmptyMap,
                                !.written[p] = IF ok
                                               THEN Some([providers |-> providers, at |-> now])
                                               ELSE @]
            /\ UNCHANGED <<film_cache, release_cache, release_cache_meta,
                           now, tq, wr, rd, run>>

ProvGetProviders ==
    \E requests \in ProvRequests :
        /\ cq.n < MaxCacheOps
        /\ cq' = [cq EXCEPT !.op = "get_providers", !.n = @ + 1, !.at = now,
                            !.ok = TRUE, !.requests = requests,
                            !.result = get_providers(ProviderDb, requests, now)]
        /\ UNCHANGED <<dbVars, tq, wr, rd, run>>

NextProv == ProvTick \/ ProvPutProviders \/ ProvGetProviders

SpecProv == InitProv /\ [][NextProv]_vars

\* C29: after a successful put_providers(id, country, P) with P non-empty, a
\* get_providers for (id, country) within the provider TTL returns exactly
\* the providers of P, whatever was stored for the pair before.
C29_PutReplacesPair ==
    cq.op = "get_providers" =>
        \A i \in 1..Len(cq.requests) :
            LET p == cq.requests[i]
                w == cq.written[p]
            IN  (IsSome(w) /\ w[1].providers # <<>>
                   /\ is_provider_fresh(w[1].at, cq.at)) =>
                    /\ p \in DOMAIN cq.result
                    /\ Range(cq.result[p]) = Range(w[1].providers)

-----------------------------------------------------------------------------
(* SpecOffers: a sequence of process runs for one country in which the      *)
(* watch-provider endpoint may answer without any offer for that country    *)

OfferCountries == {"FR"}

OfferTokens == {<<"key">>}

\* a failed exchange, an answer without the country, an answer whose entry
\* for the country has no category, and an answer with one offer
OfferResps ==
    {[ok |-> FALSE, results |-> EmptyMap],
     [ok |-> TRUE, results |-> EmptyMap],
     [ok |-> TRUE, results |->
         [c \in OfferCountries |->
             [link |-> Some("https://watch"), flatrate |-> None,
              rent |-> None, buy |-> None]]],
     [ok |-> TRUE, results |->
         [c \in OfferCountries |->
             [link |-> None, flatrate |-> Some(<<Offer(8, "Netflix")>>),
              rent |-> None, buy |-> None]]]}

NextOffers ==
    \/ ProcTick
    \/ ProcStart(SeqWatchlists, OfferCountries, SeqConcurrencies, OfferTokens, MaxRuns)
    \/ ProcTaskStart
    \/ ProcResolveFinish(SeqResolveIo)
    \/ ProcResolveDone
    \/ ProcReleaseFinish(SeqReleaseResps)
    \/ ProcReleaseDone
    \/ ProcProviderFinish(OfferResps)
    \/ ProcProviderDone

SpecOffers == Init /\ [][NextOffers]_vars

FreshProviderMeta(key) ==
    \E i \in 1..Len(provider_cache_meta) :
        /\ provider_cache_meta[i].tmdb_id = key[1]
        /\ provider_cache_meta[i].country = key[2]
        /\ is_provider_fresh(provider_cache_meta[i].cached_at, now)

\* the next run asks for the same country within the provider TTL of a run
\* that returned its list
SameCountryWithinProviderTtl ==
    /\ Started
    /\ run.prev.ok
    /\ run.prev.country = run.country
    /\ is_provider_fresh(run.prev.at, now)

\* C30: once a run has returned, every pair whose watch-provider call
\* succeeded has a fresh meta row in the provider cache, an empty provider
\* list included; and a next run for the same country within the provider
\* TTL makes no watch-provider call for that pair.
C30_EmptyOffersRecordedFresh ==
    /\ Returned =>
           \A key \in DOMAIN run.calls.get_watch_providers :
               key \notin run.provider_failed => FreshProviderMeta(key)
    /\ SameCountryWithinProviderTtl =>
           \A key \in run.prev.provider_ok :
               Count(run.calls.get_watch_providers, key) = 0

-----------------------------------------------------------------------------
(* SpecIdentity: a sequence of process runs over two slugs whose identity   *)
(* resolution may find an id, find none, or fail                            *)

IdWatchlists ==
    {<<WishlistFilm("heat", None), WishlistFilm("dune-part-two", Some(2024))>>}

IdCountries == {"US"}

PageWithoutId ==
    [ok |-> TRUE, title |-> <<"Page", " ", "title">>, year |-> Some(2024),
     tmdb_id |-> None]

\* the page has no id and search finds nothing; the page fails and search
\* fails or finds a match; the page has the id
IdResolveIo ==
    {[slug \in FilmSlugs |->
         [scrape |-> PageWithoutId, search |-> SearchEmpty, details |-> DetailsFailed]],
     [slug \in FilmSlugs |->
         [scrape |-> ScrapeFailed, search |-> SearchFailed, details |-> DetailsFailed]],
     [slug \in FilmSlugs |->
         [scrape |-> ScrapeFailed, search |-> SearchMatch, details |-> DetailsFailed]],
     [slug \in FilmSlugs |->
         [scrape |-> PageWithId(slug), search |-> SearchFailed, details |-> DetailsPoster]]}

IdReleaseResps == {[ok |-> FALSE, results |-> <<>>]}

NextIdentity ==
    \/ ProcTick
    \/ ProcStart(IdWatchlists, IdCountries, SeqConcurrencies, ExpiryTokens, MaxRuns)
    \/ ProcTaskStart
    \/ ProcResolveFinish(IdResolveIo)
    \/ ProcResolveDone
    \/ ProcReleaseFinish(IdReleaseResps)
    \/ ProcReleaseDone
    \/ ProcProviderFinish(ExpiryProviderResps)
    \/ ProcProviderDone

SpecIdentity == Init /\ [][NextIdentity]_vars

\* the new identities of the run are written
IdentitiesStored ==
    \/ run.phase \in {"release", "provider"}
    \/ /\ run.phase = "done"
       /\ run.films # <<>>
       /\ run.failed_op \notin {"get_films", "upsert_films"}

FreshRowWithoutId(slug) ==
    \E r \in film_cache :
        /\ r.letterboxd_slug = slug
        /\ r.tmdb_id = None
        /\ is_film_fresh(r.updated_at, now)

\* the next run is within the identity TTL of a run that returned its list
WithinFilmTtl ==
    /\ Started
    /\ run.prev.ok
    /\ is_film_fresh(run.prev.at, now)

\* C31: a slug resolved without a catalog id has a fresh identity row with
\* an absent id once the run has written its identities, and a next run
\* with that slug within the identity TTL makes no detail-page fetch for it.
C31_NoRepeatedScrape ==
    /\ IdentitiesStored => \A slug \in NoIdSlugs(run) : FreshRowWithoutId(slug)
    /\ WithinFilmTtl =>
           \A slug \in run.prev.no_id :
               Count(run.calls.fetch_letterboxd_film_data, slug) = 0

\* the slugs whose identity row carries a catalog id
SlugsWithId(table) == {r.letterboxd_slug : r \in {x \in table : IsSome(x.tmdb_id)}}

\* C32: the stored catalog id of a slug never goes from present to absent:
\* a slug whose identity row carries a catalog id still has a row with a
\* catalog id after every step of every run.
C32_IdNeverLost ==
    [][SlugsWithId(film_cache) \subseteq SlugsWithId(film_cache')]_vars

-----------------------------------------------------------------------------
(* SpecNeeds: one process run for NZ or US whose release answers carry a    *)
(* streaming entry dated today, after today, before today, or none, in the *)
(* requested country or in a fallback country only                          *)

NeedsCountries == {"NZ", "US"}

NeedsReleaseResps ==
    {[ok |-> FALSE, results |-> <<>>],
     [ok |-> TRUE, results |-> <<CountryEntry("NZ", <<Upstream(Timestamp(Today), 4, None)>>)>>],
     [ok |-> TRUE, results |->
         <<CountryEntry("NZ", <<Upstream(Timestamp(20261102), 4, None)>>),
           CountryEntry("US", <<Upstream(Timestamp(20261102), 4, None)>>)>>],
     [ok |-> TRUE, results |->
         <<CountryEntry("NZ", <<Upstream(Timestamp(20260901), 4, None)>>)>>],
     [ok |-> TRUE, results |->
         <<CountryEntry("AU", <<Upstream(Timestamp(20270201), 4, None)>>)>>],
     [ok |-> TRUE, results |->
         <<CountryEntry("US", <<Upstream(Timestamp(20270301), 3, None)>>)>>]}

NextNeeds ==
    \/ ProcStart(IdWatchlists, NeedsCountries, SeqConcurrencies, ExpiryTokens, 1)
    \/ ProcTaskStart
    \/ ProcResolveFinish(ExpiryResolveIo)
    \/ ProcResolveDone
    \/ ProcReleaseFinish(NeedsReleaseResps)
    \/ ProcReleaseDone
    \/ ProcProviderFinish(ExpiryProviderResps)
    \/ ProcProviderDone

SpecNeeds == Init /\ [][NextNeeds]_vars

\* the results are assembled and the provider cache has been asked
ProvidersLookedUp ==
    \/ run.phase = "provider"
    \/ /\ run.phase = "done"
       /\ run.results # <<>>
       /\ run.failed_op \in {"", "put_providers"}

HasStreamingAfter(film, today) ==
    \E i \in 1..Len(film.streaming) : film.streaming[i].date > today

\* C33: a film of the assembled results is in the provider lookup exactly
\* when none of its streaming entries is dated after today, an entry dated
\* today not counting as future; every key of the lookup is the film's id
\* with the requested country, whatever tier the releases came from.
C33_LookupIffNoFutureStreaming ==
    ProvidersLookedUp =>
        /\ \A i \in 1..Len(run.results) :
               LET film == run.results[i]
               IN  Count(run.calls.get_providers, <<film.tmdb_id, run.country>>) > 0
                       <=> ~HasStreamingAfter(film, Today)
        /\ \A key \in DOMAIN run.calls.get_providers :
               /\ key[2] = run.country
               /\ \E i \in 1..Len(run.results) : run.results[i].tmdb_id = key[1]

\* for NZ, one film streams today and is looked up, the other has its only
\* streaming entry from the AU tier, after today, and is not
C33_Witness ==
    /\ ProvidersLookedUp
    /\ run.country = "NZ"
    /\ Len(run.results) = 2
    /\ \E i, j \in 1..2 :
           /\ \E k \in 1..Len(run.results[i].streaming) :
                  run.results[i].streaming[k].date = Today
           /\ Count(run.calls.get_providers, <<run.results[i].tmdb_id, "NZ">>) = 1
           /\ \E k \in 1..Len(run.results[j].streaming) :
                  run.results[j].streaming[k].note = Some(<<"AU">>)
           /\ HasStreamingAfter(run.results[j], Today)
           /\ Count(run.calls.get_providers, <<run.results[j].tmdb_id, "NZ">>) = 0

\* the run is past its identity resolution
ResolutionOver ==
    \/ run.phase \in {"release", "provider"}
    \/ /\ run.phase = "done"
       /\ run.films # <<>>
       /\ run.failed_op # "get_films"

RowsOf(table, slug) == {r \in table : r.letterboxd_slug = slug}

FilmSlugsOf(films) == {films[i].letterboxd_slug : i \in 1..Len(films)}

\* the slugs whose search call returned an error
SearchErrors ==
    {slug \in DOMAIN run.calls.search_ret : ~run.calls.search_ret[slug].ok}

\* what holds in every state of a run in which a search call failed
SearchFailureDropsFilm ==
    /\ (run.phase = "done" /\ ~run.ok) => run.failed_op # ""
    /\ ResolutionOver =>
           \A slug \in SearchErrors :
               \A i \in 1..Len(run.all_films) : run.all_films[i].slug # slug
    /\ Returned =>
           ResultSlugs = FilmSlugsOf(run.films) \ (SearchErrors \cup NoIdSlugs(run))
    /\ (ResolutionOver /\ run.n > 1) =>
           \A slug \in run.prev.resolve_failed :
               Count(run.calls.fetch_letterboxd_film_data, slug) = 1

\* what the end of the identity resolution leaves alone
FailedIdentityNotWritten ==
    (run.phase = "resolve" /\ run'.phase # "resolve") =>
        \A slug \in SearchErrors :
            RowsOf(film_cache', slug) = RowsOf(film_cache, slug)

\* C35: a film whose search call fails is not in the film list nor in the
\* returned list, the run does not fail for it and returns every other film
\* that has a catalog id; the write of the new identities leaves the rows of
\* the failed slug as they were, and the next run fetches its detail page
\* and resolves it again.
C35_SearchErrorDropsOnlyThatFilm ==
    []SearchFailureDropsFilm /\ [][FailedIdentityNotWritten]_vars

\* the search for heat failed in the first run, which returned
\* dune-part-two alone; the second run resolves heat and returns both
C35_Witness ==
    /\ Returned
    /\ run.n = 2
    /\ run.prev.ok
    /\ run.prev.resolve_failed = {"heat"}
    /\ Count(run.calls.fetch_letterboxd_film_data, "heat") = 1
    /\ Count(run.calls.fetch_letterboxd_film_data, "dune-part-two") = 0
    /\ ResultSlugs = {"heat", "dune-part-two"}

-----------------------------------------------------------------------------
(* The order of the stages of one run (SpecFan)                             *)

NoTaskLeft == run.pending = <<>> /\ run.inflight = {}

UncachedSlugs == FilmSlugsOf(UncachedPart(run.films, run.cached_films))

ReleaseLookupMade == DOMAIN run.calls.get_releases # {}

ProviderLookupMade == DOMAIN run.calls.get_providers # {}

\* what holds in every state: a stage has begun only after the stage before
\* it has completed every task and stored its results
StagesInOrder ==
    /\ (ReleaseLookupMade \/ DOMAIN run.calls.get_release_dates # {}) =>
           /\ run.phase # "resolve"
           /\ \A slug \in UncachedSlugs :
                  /\ Count(run.calls.fetch_letterboxd_film_data, slug) = 1
                  /\ slug \notin run.resolve_failed =>
                         \E r \in film_cache :
                             r.letterboxd_slug = slug /\ r.updated_at = now
    /\ (ProviderLookupMade \/ DOMAIN run.calls.get_watch_providers # {}) =>
           /\ run.phase \notin {"resolve", "release"}
           /\ \A key \in MissingPairs :
                  /\ Count(run.calls.get_release_dates, key[1]) = 1
                  /\ key[1] \notin run.release_failed => FreshReleaseMeta(key)
    /\ run.phase = "resolve" =>
           /\ release_cache = <<>> /\ release_cache_meta = <<>>
           /\ provider_cache = <<>> /\ provider_cache_meta = <<>>
    /\ run.phase = "release" => provider_cache = <<>> /\ provider_cache_meta = <<>>

\* what every step respects: a cache is written, and the next cache is
\* read, only by the step that ends a fan-out with no task left
WritesAfterFanOut ==
    /\ film_cache' # film_cache => run.phase = "resolve" /\ NoTaskLeft
    /\ run'.calls.get_releases # run.calls.get_releases =>
           run.phase = "resolve" /\ NoTaskLeft
    /\ <<release_cache, release_cache_meta>>' # <<release_cache, release_cache_meta>> =>
           run.phase = "release" /\ NoTaskLeft
    /\ run'.calls.get_providers # run.calls.get_providers =>
           run.phase = "release" /\ NoTaskLeft
    /\ <<provider_cache, provider_cache_meta>>' # <<provider_cache, provider_cache_meta>> =>
           run.phase = "provider" /\ NoTaskLeft
    /\ run'.inflight # run.inflight =>
           UNCHANGED <<film_cache, release_cache, release_cache_meta,
                       provider_cache, provider_cache_meta>>

\* C36: within a run no release-cache lookup or release fetch is made before
\* every identity task has completed and the new identities are stored, no
\* release-cache write before every release task has completed, no provider
\* lookup or fetch before the release results are stored; a cache is written
\* only by the step that ends a fan-out, never while a task is in flight.
C36_StagesDoNotOverlap ==
    []StagesInOrder /\ [][WritesAfterFanOut]_vars

\* three films, two tasks at a time: the provider stage is reached with the
\* identities and the release sets of all three stored
C36_Witness ==
    /\ run.phase = "provider"
    /\ run.max_concurrent = 2
    /\ Cardinality(run.inflight) = 2
    /\ Cardinality(film_cache) = 3
    /\ Len(release_cache_meta) >= 3
    /\ provider_cache = <<>>

-----------------------------------------------------------------------------
(* A failed release-date call over several runs (SpecExpiry)                *)

ReleaseRowsOf(id) ==
    <<SelectSeq(release_cache, LAMBDA r : r.tmdb_id = id),
      SelectSeq(release_cache_meta, LAMBDA m : m.tmdb_id = id)>>

\* the step that ends the release fan-out leaves the rows and the meta rows
\* of an id whose call failed as they were
FailedCallWritesNothing ==
    (run.phase = "release" /\ run'.phase # "release") =>
        \A id \in DOMAIN run.calls.release_err : ReleaseRowsOf(id)' = ReleaseRowsOf(id)

\* a run for the same country that has the film of an id whose call failed
\* in the run before calls upstream for the id again
FailedCallIsRepeated ==
    (ReleasesStored /\ run.n > 1 /\ run.prev.country = run.country) =>
        \A id \in run.prev.release_err :
            (\E i \in 1..Len(run.all_films) : run.all_films[i].tmdb_id = id) =>
                Count(run.calls.get_release_dates, id) = 1

\* C39: a failed release-date call writes nothing to the release cache, no
\* release row and no meta row of its id is created or refreshed, and the
\* next run for the same country calls upstream for the id again.
C39_FailedCallNotCached ==
    []FailedCallIsRepeated /\ [][FailedCallWritesNothing]_vars

\* the call for the film failed in the first run and is made again, with
\* success, in the second
C39_Witness ==
    /\ Returned
    /\ run.n = 2
    /\ run.prev.ok
    /\ run.prev.country = run.country
    /\ \E id \in run.prev.release_err :
           /\ Count(run.calls.get_release_dates, id) = 1
           /\ id \notin DOMAIN run.calls.release_err
           /\ \E i \in 1..Len(release_cache_meta) : release_cache_meta[i].tmdb_id = id

-----------------------------------------------------------------------------
(* SpecFanFair: the run of SpecFan under the assumption that every call a   *)
(* task or the run makes returns, and that the runtime polls the fan-out:   *)
(* a step of the run that stays possible is eventually taken                *)

\* the run has every collected result of the stage and has not yet written them
StageCollected(ph) == run.phase = ph /\ Collected(run)

\* the closing step of a stage is enabled exactly when the stage is collected,
\* so each of the last three conjuncts is weak fairness of that step, written
\* with its enabling condition
SpecFanFair ==
    /\ SpecFan
    /\ WF_vars(ProcTaskStart)
    /\ WF_vars(ProcResolveFinish(FanResolveIo))
    /\ WF_vars(ProcReleaseFinish(FanReleaseResps))
    /\ WF_vars(ProcProviderFinish(FanProviderResps))
    /\ []<>~StageCollected("resolve") \/ []<><<ProcResolveDone>>_vars
    /\ []<>~StageCollected("release") \/ []<><<ProcReleaseDone>>_vars
    /\ []<>~StageCollected("provider") \/ []<><<ProcProviderDone>>_vars

FanPhases == {"resolve", "release", "provider"}

\* the positions of the tasks of a fan-out
FanTaskIds == 1..3

Queued(ph, i) ==
    run.phase = ph /\ \E k \in 1..Len(run.pending) : run.pending[k].i = i

InFlightTask(ph, i) == run.phase = ph /\ \E t \in run.inflight : t.i = i

\* a task leaves the set of tasks in flight only by completing
NoPreemption ==
    \A t \in run.inflight \ run'.inflight :
        /\ run'.phase = run.phase
        /\ Len(run'.items) = Len(run.items) + 1
        /\ run'.inflight = run.inflight \ {t}

\* C40: if every call returns, a started run returns: every task queued
\* behind the concurrency bound is eventually started, every started task
\* completes and none is taken out of flight before it does.
C40_ProcessReturns ==
    /\ (run.phase \in FanPhases) ~> (run.phase = "done")
    /\ \A ph \in FanPhases : \A i \in FanTaskIds :
           /\ Queued(ph, i) ~> InFlightTask(ph, i)
           /\ InFlightTask(ph, i) ~> ~InFlightTask(ph, i)
    /\ [][NoPreemption]_vars

\* a run given max_concurrent 0 has returned its three films: two tasks of
\* each fan-out waited behind the first
C40_Witness ==
    /\ Returned
    /\ run.max_concurrent = 0
    /\ Len(run.results) = 3
    /\ \A key \in DOMAIN run.calls.get_watch_providers :
           Count(run.calls.get_watch_providers, key) = 1
    /\ Cardinality(DOMAIN run.calls.get_watch_providers) = 3

=============================================================================
